---------------------------- MODULE Spec2Model ----------------------------
(***************************************************************************)
(* A model of the Maya unit-test runner:                                   *)
(*   bin/run_maya_tests.py   install resolution, relaunch under mayapy,    *)
(*                           clean MAYA_APP_DIR, environment set-up        *)
(*   python/mayaunittest.py  the in-host test driver                       *)
(*                                                                         *)
(* The module holds several specifications over disjoint groups of         *)
(* variables; each specification leaves the other groups at their idle     *)
(* values.                                                                 *)
(*   SpecResolve  resolve_maya_location as a function of its inputs        *)
(*   SpecEnv      package_from_root and configure_env_for_packages         *)
(*   SpecAppDir   get_clean_maya_app_dir and _rmtree_with_retries          *)
(*   SpecRun      main: the outer process and the process it relaunches    *)
(*   SpecDriver   run_tests_from_commandline inside the host interpreter   *)
(***************************************************************************)
EXTENDS Integers, Sequences, FiniteSets, TLC

VARIABLES
    \* ---- resolve_maya_location (SpecResolve)
    r_pc,            \* "idle" | "call" | "returned"
    r_version,       \* args.maya (an int)
    r_maya_path,     \* args.maya_path (None or a string)
    r_installs,      \* the parsed maya_installs.json (load_maya_install_map)
    r_sysname,       \* platform.system()
    r_environ,       \* os.environ.get("MAYA_LOCATION") (None when unset)
    r_location,      \* the value returned
    \* ---- configure_env_for_packages (SpecEnv)
    e_pc,            \* "idle" | "call" | "returned"
    e_sysname,       \* platform.system(): decides os.pathsep and os.sep
    e_packages,      \* the package dicts package_from_root built
    e_app_dir,       \* the maya_app_dir argument (None or a path)
    e_environ,       \* os.environ: variable name -> value, None when unset
    e_before,        \* os.environ as it was when the call was made
    \* ---- get_clean_maya_app_dir and _rmtree_with_retries (SpecAppDir)
    a_pc,            \* "idle" | "ready" | "loop" | "final" | "returned" | "raised"
    a_fs,            \* the directories that exist
    a_uuid,          \* how many uuid4() names have been drawn
    a_calls,         \* how many calls have been made
    a_op,            \* the call in progress or last made: [fn, arg, ret]
    a_before,        \* a_fs when that call was made
    a_reused,        \* the paths get_clean_maya_app_dir returned as "existing dir"
    a_tries,         \* _rmtree_with_retries: tries
    a_i,             \*   iterations of the for loop completed
    a_last_err,      \*   last_err
    a_renamed,       \*   renamed
    a_raised,        \*   the exception the call raised (NoErr when none)
    a_rmtrees,       \* shutil.rmtree calls made by this call
    a_slept,         \* milliseconds slept by this call
    a_renames,       \* os.rename calls made by this call
    a_succ_at,       \* the shutil.rmtree call that succeeded (0: none)
    \* ---- main, outer and relaunched process (SpecRun)
    m_sysname,       \* platform.system()
    m_args,          \* the command line every process of the run is given
    m_installs,      \* the content of maya_installs.json
    m_dirs,          \* the paths that exist
    m_uuid,          \* how many uuid4() names have been drawn
    m_procs,         \* the processes of the run, each the child of the one before
    \* ---- run_tests_from_commandline (SpecDriver)
    d_pc,            \* "idle" | "call" | "initialized" | "reconciled" | "tests_done"
                     \*   | "returned" | "raised"
    d_runtime,       \* "NotInitialized" | "Initialized" | "Uninitialized"
    d_inits,         \* maya.standalone.initialize() calls
    d_uninits,       \* maya.standalone.uninitialize() calls
    d_sys_path,      \* sys.path
    d_sys_path0,     \* sys.path when the call was made
    d_pythonpath,    \* os.environ PYTHONPATH: [set, fields], the fields being
                     \*   the parts between os.pathsep
    d_about,         \* cmds.about(v=True): [raises, value]
    d_directories,   \* the directories argument: a list of test directories
    d_test,          \* the test argument: None or the name of a test
    d_contents,      \* the test module each existing test directory holds
    d_tests,         \* how run_tests ended: "none" | "returned" | "raised"
    d_exc,           \* the exception that ended the call ("" when none)
    d_events         \* what has happened to the runtime, in order: "initialize",
                     \*   "reconcile", "discover", "test", "uninitialize"
VARIABLES
    \* ---- MayaTestCase temp files (SpecTemp)
    t_temp_dir,      \* Settings.temp_dir
    t_files,         \* the files that exist
    t_dirs,          \* the directories that exist
    t_files_created, \* files_created of MayaTestCase and of each class that has its own
    t_own,           \* the classes that have a files_created of their own
    t_delete_files,  \* Settings.delete_files
    t_ops,           \* calls and writes made
    t_returned       \* [cls, name, path] of the get_temp_filename calls made since
                     \*   anything else happened

resolveVars == <<r_pc, r_version, r_maya_path, r_installs, r_sysname, r_environ, r_location>>
envVars == <<e_pc, e_sysname, e_packages, e_app_dir, e_environ, e_before>>

appVars == <<a_pc, a_fs, a_uuid, a_calls, a_op, a_before, a_reused, a_tries, a_i,
             a_last_err, a_renamed, a_raised, a_rmtrees, a_slept, a_renames, a_succ_at>>

runVars == <<m_sysname, m_args, m_installs, m_dirs, m_uuid, m_procs>>

driverVars == <<d_pc, d_runtime, d_inits, d_uninits, d_sys_path, d_sys_path0,
                d_pythonpath, d_about, d_directories, d_test, d_contents, d_tests, d_exc,
                d_events>>

VARIABLES
    \* ---- a test run and its result collector (SpecTests)
    u_pc,            \* "idle" | "tests" | "tearDown" | "stopTest"
    u_collector,     \* the collector of the latest run: "custom" (TestResult, as run_tests uses) | "plain"
    u_marker,        \* CUSTOM_RUNNER in os.environ
    u_file_new,      \* Settings.file_new
    u_buffer_output, \* Settings.buffer_output
    u_delete_files,  \* Settings.delete_files
    u_flags,         \* the host's four scriptEditorInfo suppress flags
    u_saved,         \* ScriptEditorState's four class attributes: [valid, vals],
                     \*   valid FALSE while they are None
    u_before,        \* the host's flags immediately before startTestRun
    u_logging,       \* logging.disable level: "NOTSET" | "CRITICAL"
    u_temp_exists,   \* os.path.exists(Settings.temp_dir)
    u_runs,          \* runs started
    u_testno,        \* tests finished in this run
    u_cur,           \* the test in progress
    u_last_test,     \* the test that finished last
    u_run_end,       \* how the last stopTestRun ended: "none" | "returned" | "raised"
    u_after          \* the host's flags immediately after the last stopTestRun

testsVars == <<u_pc, u_collector, u_marker, u_file_new, u_buffer_output, u_delete_files,
               u_flags, u_saved, u_before, u_logging, u_temp_exists, u_runs, u_testno,
               u_cur, u_last_test, u_run_end, u_after>>

VARIABLES
    \* ---- MayaTestCase plugin bookkeeping (SpecPlugins)
    p_base,          \* the set object bound to MayaTestCase.plugins_loaded
    p_own,           \* per test class: "inherited" while the class has no
                     \*   plugins_loaded of its own, "list" once it was given []
    p_host,          \* the plugins loaded in the host
    p_loader,        \* per plugin: the class whose load_plugin loaded it last
    p_unloads,       \* per plugin: the classes whose teardown unloaded it since
    p_ops,           \* calls made
    p_last           \* the last call: [op, cls, recorded, attempted, raised]

pluginVars == <<p_base, p_own, p_host, p_loader, p_unloads, p_ops, p_last>>

VARIABLES
    \* ---- get_tests (SpecGetTests)
    g_pc,            \* "idle" | "call" | "loading" | "loaded" | "returned" | "raised"
    g_test,          \* the test argument (None: discover everything)
    g_directories,   \* the directories argument
    g_exists,        \* the directories that exist
    g_contents,      \* the test module each existing directory holds
    g_sys_path,      \* sys.path
    g_sys_path0,     \* sys.path when the call was made
    g_added          \* directories_added_to_path

getTestsVars == <<g_pc, g_test, g_directories, g_exists, g_contents, g_sys_path,
                  g_sys_path0, g_added>>

tempVars == <<t_temp_dir, t_files, t_dirs, t_files_created, t_own, t_delete_files, t_ops,
              t_returned>>

vars == <<resolveVars, envVars, appVars, runVars, driverVars, tempVars, testsVars, pluginVars, getTestsVars>>

-----------------------------------------------------------------------------
(* Python values *)

\* Python's None, where a str is expected otherwise
None == "<None>"

\* truth value of an optional str: None and "" are false
Truthy(s) == s # None /\ s # ""

\* dict.get(key) on a dict whose keys are all str: a key is [kind, s], and an
\* int key never equals a str key
PyStr(n) == [kind |-> "str", s |-> ToString(n)]
PyInt(n) == [kind |-> "int", s |-> ToString(n)]
DictGet(d, key) ==
    IF key.kind = "str" /\ key.s \in DOMAIN d THEN d[key.s] ELSE None

-----------------------------------------------------------------------------
(* bin/run_maya_tests.py: Maya discovery *)

DEFAULT_MAYA_VERSION == 2022

LinuxX64Cutoff == 2016

\* _normalize_os_key: platform.system().lower() searched for "windows",
\* "darwin", "mac"; everything else is "linux"
_normalize_os_key(sysname) ==
    IF sysname \in {"Windows"} THEN "windows"
    ELSE IF sysname \in {"Darwin"} THEN "darwin"
    ELSE "linux"

default_maya_location(os_key, maya_version) ==
    IF os_key = "windows"
    THEN "C:/Program Files/Autodesk/Maya" \o ToString(maya_version)
    ELSE IF os_key = "darwin"
    THEN "/Applications/Autodesk/maya" \o ToString(maya_version) \o "/Maya.app/Contents"
    ELSE "/usr/autodesk/maya" \o ToString(maya_version)
         \o (IF maya_version < LinuxX64Cutoff THEN "-x64" ELSE "")

\* A parsed JSON value is [isdict, items]; items maps str keys to values.
\* The install map is a dict of dicts of str.
NoItems == [k \in {} |-> None]
NotADict == [isdict |-> FALSE, items |-> NoItems]
Dict(f) == [isdict |-> TRUE, items |-> f]

\* steps 1-4 of resolve_maya_location; installs is what load_maya_install_map
\* returned, environ is os.environ.get("MAYA_LOCATION")
resolve_maya_location(maya_version, maya_path, installs, sysname, environ) ==
    LET os_key  == _normalize_os_key(sysname)
        ver_key == IF maya_version # 0 THEN PyStr(maya_version)
                   ELSE PyInt(DEFAULT_MAYA_VERSION)
        os_map  == IF installs.isdict /\ os_key \in DOMAIN installs.items
                   THEN installs.items[os_key] ELSE Dict(NoItems)
        loc     == IF installs.isdict /\ os_map.isdict
                   THEN DictGet(os_map.items, ver_key) ELSE None
    IN  IF Truthy(maya_path) THEN maya_path
        ELSE IF Truthy(loc) THEN loc
        ELSE IF Truthy(environ) THEN environ
        ELSE default_maya_location(os_key, maya_version)

-----------------------------------------------------------------------------
(* the inputs resolve_maya_location is run on *)

Versions == {0, 2015, 2016, 2022}
MayaPaths == {None, "", "/x"}
EnvLocations == {None, "", "/z"}
Sysnames == {"Windows", "Darwin", "Linux", "FreeBSD"}

\* one os map: which version keys it holds
VerMap(keys, path) == Dict([k \in keys |-> path \o k])
InstallMaps ==
    { Dict(NoItems),                                           \* file missing: {}
      NotADict,                                                \* e.g. a JSON list
      Dict([o \in {"linux"} |-> NotADict]),
      Dict([o \in {"windows", "darwin", "linux"} |-> VerMap({"2022", "2015"}, "/y")]),
      Dict([o \in {"windows", "darwin", "linux"} |-> VerMap({"0", "2022"}, "/y")]),
      Dict([o \in {"windows", "darwin", "linux"} |-> Dict([k \in {"2022", "2016"} |-> ""])]),
      Dict([o \in {"windows"} |-> VerMap({"2016", "2022"}, "/w")]) }

-----------------------------------------------------------------------------
(* bin/run_maya_tests.py: paths, package model, environment configuration *)

\* os.pathsep and os.sep of the platform
Pathsep(sysname) == IF sysname = "Windows" THEN ";" ELSE ":"
OsSep(sysname) == IF sysname = "Windows" THEN "\\" ELSE "/"

\* os.path.join(a, b)
PathJoin(a, b, sysname) == a \o OsSep(sysname) \o b

\* os.path.abspath: package roots are given absolute and normalized, except
\* the relative roots, which are resolved against the working directory
Cwd == "/cwd"
RelativeRoots == {"pkgC"}
abspath(path, sysname) ==
    IF path \in RelativeRoots THEN PathJoin(Cwd, path, sysname) ELSE path

\* package_from_root without the check of tests/
Mut_package_from_root_no_tests(root_path, dirs, sysname) ==
    LET root       == abspath(root_path, sysname)
        tests_dir  == PathJoin(root, "tests", sysname)
        python_dir == PathJoin(root, "python", sysname)
    IN  [ raised     |-> IF root \notin dirs THEN "Package root does not exist" ELSE "",
          root       |-> root,
          tests_dir  |-> tests_dir,
          python_dir |-> IF python_dir \in dirs THEN python_dir ELSE None ]

\* package_from_root: the package dict, or the RuntimeError raised; dirs is
\* the set of paths that exist (the "name" entry, used only for printing, is
\* left out)
package_from_root(root_path, dirs, sysname) ==
    LET root       == abspath(root_path, sysname)
        tests_dir  == PathJoin(root, "tests", sysname)
        python_dir == PathJoin(root, "python", sysname)
    IN  [ raised     |-> IF root \notin dirs THEN "Package root does not exist"
                         ELSE IF tests_dir \notin dirs THEN "Missing tests/ in package root"
                         ELSE "",
          root       |-> root,
          tests_dir  |-> tests_dir,
          python_dir |-> IF python_dir \in dirs THEN python_dir ELSE None ]

\* _join_paths: os.pathsep.join([str(p) for p in paths])
RECURSIVE _join_paths(_, _)
_join_paths(paths, sysname) ==
    IF paths = <<>> THEN ""
    ELSE IF Len(paths) = 1 THEN paths[1]
    ELSE paths[1] \o Pathsep(sysname) \o _join_paths(Tail(paths), sysname)

EnvNames == {"MAYA_LOCATION", "MAYA_APP_DIR", "MAYA_SCRIPT_PATH",
             "MAYA_MODULE_PATH", "PYTHONPATH"}

\* configure_env_for_packages with the previous PYTHONPATH put in front of
\* the python/ directories instead of behind them
Mut_configure_env_appends(packages, maya_app_dir, environ, sysname) ==
    LET e1 == IF maya_app_dir # None
              THEN [environ EXCEPT !["MAYA_APP_DIR"] = maya_app_dir]
              ELSE environ
        e2 == [e1 EXCEPT !["MAYA_SCRIPT_PATH"] = ""]
        e3 == [e2 EXCEPT !["MAYA_MODULE_PATH"] =
                  _join_paths([i \in 1..Len(packages) |-> packages[i].root], sysname)]
        python_dirs == SelectSeq([i \in 1..Len(packages) |-> packages[i].python_dir],
                                 Truthy)
        existing == IF e3["PYTHONPATH"] = None THEN "" ELSE e3["PYTHONPATH"]
        prefix == _join_paths(python_dirs, sysname)
    IN  IF python_dirs # <<>>
        THEN [e3 EXCEPT !["PYTHONPATH"] =
                 (IF existing # "" THEN existing \o Pathsep(sysname) ELSE "") \o prefix]
        ELSE e3

\* configure_env_for_packages: os.environ after the call
configure_env_for_packages(packages, maya_app_dir, environ, sysname) ==
    LET e1 == IF maya_app_dir # None
              THEN [environ EXCEPT !["MAYA_APP_DIR"] = maya_app_dir]
              ELSE environ
        e2 == [e1 EXCEPT !["MAYA_SCRIPT_PATH"] = ""]
        e3 == [e2 EXCEPT !["MAYA_MODULE_PATH"] =
                  _join_paths([i \in 1..Len(packages) |-> packages[i].root], sysname)]
        python_dirs == SelectSeq([i \in 1..Len(packages) |-> packages[i].python_dir],
                                 Truthy)
        existing == IF e3["PYTHONPATH"] = None THEN "" ELSE e3["PYTHONPATH"]
        prefix == _join_paths(python_dirs, sysname)
    IN  IF python_dirs # <<>>
        THEN [e3 EXCEPT !["PYTHONPATH"] =
                 prefix \o (IF existing # "" THEN Pathsep(sysname) \o existing ELSE "")]
        ELSE e3

-----------------------------------------------------------------------------
(* resolve_maya_location as a state machine: one call on drawn inputs *)

ResolveIdle ==
    /\ r_pc = "idle" /\ r_version = 0 /\ r_maya_path = None
    /\ r_installs = NotADict /\ r_sysname = "" /\ r_environ = None
    /\ r_location = None

InitResolve ==
    /\ r_pc = "call"
    /\ r_version \in Versions
    /\ r_maya_path \in MayaPaths
    /\ r_installs \in InstallMaps
    /\ r_sysname \in Sysnames
    /\ r_environ \in EnvLocations
    /\ r_location = None

Resolve ==
    /\ r_pc = "call"
    /\ r_location' = resolve_maya_location(r_version, r_maya_path, r_installs,
                                           r_sysname, r_environ)
    /\ r_pc' = "returned"
    /\ UNCHANGED <<r_version, r_maya_path, r_installs, r_sysname, r_environ>>

-----------------------------------------------------------------------------
(* configure_env_for_packages as a state machine: main's lines 323 and 341 *)
(* on drawn package roots, directory layouts and prior environments        *)

MaxPkgs == 2

EnvSysnames == {"Linux", "Windows"}
RootArgs(sysname) ==
    IF sysname = "Windows" THEN {"D:\\pkgA", "D:\\pkgB"} ELSE {"/pkgA", "/pkgB", "pkgC"}

\* the directories of one package root laid out with tests/ and, for the
\* roots in withPython, python/
Layout(roots, withPython, sysname) ==
    UNION { LET r == abspath(a, sysname)
            IN  {r, PathJoin(r, "tests", sysname)}
                \cup (IF a \in withPython THEN {PathJoin(r, "python", sysname)} ELSE {})
            : a \in roots }

AppDirs == {None, "/tmp/maya_app_dir_1"}
PriorEnvs ==
    { e \in [EnvNames -> {None, "", "/prev"}] :
        /\ e["MAYA_LOCATION"] = "/prev"
        /\ e["MAYA_SCRIPT_PATH"] \in {None, "/prev"}
        /\ e["MAYA_MODULE_PATH"] \in {None, "/prev"}
        /\ e["MAYA_APP_DIR"] \in {None, "/prev"} }

EnvIdle ==
    /\ e_pc = "idle" /\ e_sysname = "" /\ e_packages = <<>> /\ e_app_dir = None
    /\ e_environ = [n \in EnvNames |-> None] /\ e_before = [n \in EnvNames |-> None]

InitEnv ==
    /\ e_pc = "call"
    /\ e_sysname \in EnvSysnames
    /\ \E n \in 1..MaxPkgs :
         \E args \in [1..n -> RootArgs(e_sysname)] :
           \E withPython \in SUBSET RootArgs(e_sysname) :
             e_packages = [i \in 1..n |->
                 package_from_root(args[i],
                     Layout(RootArgs(e_sysname), withPython, e_sysname), e_sysname)]
    /\ e_app_dir \in AppDirs
    /\ e_environ \in PriorEnvs
    /\ e_before = e_environ

ConfigureEnv ==
    /\ e_pc = "call"
    /\ e_environ' = configure_env_for_packages(e_packages, e_app_dir, e_environ, e_sysname)
    /\ e_pc' = "returned"
    /\ UNCHANGED <<e_sysname, e_packages, e_app_dir, e_before>>

-----------------------------------------------------------------------------
(* bin/run_maya_tests.py: clean MAYA_APP_DIR *)

\* an exception: its class and the ordinal of the shutil.rmtree call that
\* raised it
NoErr == [type |-> "none", at |-> 0]
Err(type, at) == [type |-> type, at |-> at]

\* the class of the OSError raised for an errno
ErrnoClass(errno) ==
    IF errno \in {"EACCES", "EPERM"} THEN "PermissionError" ELSE "OSError"

\* _remove_read_only(func, path, exc), called by shutil.rmtree when func
\* failed on an entry with errno.  shutil.rmtree hands it os.unlink for a
\* file and os.rmdir for a directory; os.remove is another object than
\* os.unlink.  For os.rmdir or os.remove and EACCES the entry is made
\* writable and func repeated (again: "ok", or the errno it fails with now);
\* in every other case the exception is re-raised.  The result is how the
\* removal of the entry ends.
_remove_read_only(func, errno, again) ==
    IF func \in {"os.rmdir", "os.remove"} /\ errno = "EACCES"
    THEN IF again = "ok" THEN "ok" ELSE ErrnoClass(again)
    ELSE ErrnoClass(errno)

\* shutil.rmtree(path, onerror=_remove_read_only) on a tree in condition
\* cond: "ok" (the tree is gone) or the class of the exception raised
TreeConds == {"free", "readonly_dir", "readonly_file", "locked", "notempty", "eperm", "busy"}
rmtree(cond) ==
    CASE cond = "free"          -> "ok"
      [] cond = "readonly_dir"  -> _remove_read_only("os.rmdir", "EACCES", "ok")
      [] cond = "readonly_file" -> _remove_read_only("os.unlink", "EACCES", "ok")
      [] cond = "locked"        -> _remove_read_only("os.unlink", "EACCES", "EACCES")
      [] cond = "notempty"      -> _remove_read_only("os.rmdir", "EACCES", "ENOTEMPTY")
      [] cond = "eperm"         -> _remove_read_only("os.unlink", "EPERM", "EPERM")
      [] OTHER                  -> _remove_read_only("os.rmdir", "EBUSY", "EBUSY")

\* the defaults of _rmtree_with_retries: tries=12, delay_sec=0.25
DefaultTries == 12
DelayMs == 250

\* tempfile.gettempdir() + "maya_app_dir_<uuid4>", the n-th uuid drawn
TempAppDir(n) == "/tmp/maya_app_dir_" \o ToString(n)

\* the loop bound off by one: range(tries + 1)
Mut_LoopOneMore(i, tries) == i <= tries

\* get_clean_maya_app_dir(app_dir) with dirs existing and n uuids drawn so
\* far: the path returned, the directories afterwards, whether a directory
\* was created
get_clean_maya_app_dir(app_dir, dirs, n) ==
    IF Truthy(app_dir) /\ app_dir \in dirs
    THEN [ret |-> app_dir, dirs |-> dirs, created |-> FALSE]
    ELSE [ret |-> TempAppDir(n + 1), dirs |-> dirs \cup {TempAppDir(n + 1)},
          created |-> TRUE]

\* for _ in range(tries): is there another iteration
LoopContinues(i, tries) == i < tries

\* a bare "raise" in the except clause: the exception just caught
Mut_LastResortRaisesCaught(last_err, caught) == caught

\* lines 218-222: what the except clause of the last resort raises, given
\* last_err and the exception just caught
LastResortRaises(last_err, caught) ==
    IF last_err # NoErr THEN last_err ELSE caught

\* the sibling name the directory is renamed to
DeleteLaterName(path) == path \o "_delete_later"

MaxCalls == 3
MaxTries == 2
TriesArgs == {DefaultTries} \cup 1..MaxTries
CallerDirs == {"/caller/app"}
AcquireArgs == {None, "", "/caller/app", "/caller/missing"}
ReleaseArgs == AcquireArgs \cup {TempAppDir(n) : n \in 1..MaxCalls}

AppIdle ==
    /\ a_pc = "idle" /\ a_fs = {} /\ a_uuid = 0 /\ a_calls = 0
    /\ a_op = [fn |-> "none", arg |-> None, ret |-> None]
    /\ a_before = {} /\ a_reused = {} /\ a_tries = 0 /\ a_i = 0
    /\ a_last_err = NoErr /\ a_renamed = None /\ a_raised = NoErr
    /\ a_rmtrees = 0 /\ a_slept = 0 /\ a_renames = 0 /\ a_succ_at = 0

InitAppDir ==
    /\ a_pc = "ready" /\ a_fs = CallerDirs /\ a_uuid = 0 /\ a_calls = 0
    /\ a_op = [fn |-> "none", arg |-> None, ret |-> None]
    /\ a_before = CallerDirs /\ a_reused = {} /\ a_tries = 0 /\ a_i = 0
    /\ a_last_err = NoErr /\ a_renamed = None /\ a_raised = NoErr
    /\ a_rmtrees = 0 /\ a_slept = 0 /\ a_renames = 0 /\ a_succ_at = 0

AppAtRest == a_pc \in {"ready", "returned", "raised"}

\* a new call starts with fresh locals
AppFreshCall ==
    /\ a_i' = 0 /\ a_last_err' = NoErr /\ a_renamed' = None /\ a_raised' = NoErr
    /\ a_rmtrees' = 0 /\ a_slept' = 0 /\ a_renames' = 0 /\ a_succ_at' = 0
    /\ a_calls' = a_calls + 1 /\ a_before' = a_fs

\* get_clean_maya_app_dir(app_dir)
Acquire(app_dir) ==
    /\ AppAtRest /\ a_calls < MaxCalls
    /\ AppFreshCall
    /\ a_tries' = 0
    /\ a_pc' = "returned"
    /\ LET r == get_clean_maya_app_dir(app_dir, a_fs, a_uuid) IN
       /\ a_op' = [fn |-> "acquire", arg |-> app_dir, ret |-> r.ret]
       /\ a_fs' = r.dirs
       /\ a_uuid' = IF r.created THEN a_uuid + 1 ELSE a_uuid
       /\ a_reused' = IF r.created THEN a_reused ELSE a_reused \cup {r.ret}

\* _rmtree_with_retries(path, tries): the call and the guard of line 194
ReleaseCall(path, tries) ==
    /\ AppAtRest /\ a_calls < MaxCalls
    /\ AppFreshCall
    /\ a_tries' = tries
    /\ a_op' = [fn |-> "release", arg |-> path, ret |-> None]
    /\ a_pc' = IF ~Truthy(path) \/ path \notin a_fs THEN "returned" ELSE "loop"
    /\ UNCHANGED <<a_fs, a_uuid, a_reused>>

\* one iteration of the for loop, lines 198-204
LoopAttempt ==
    /\ a_pc = "loop" /\ LoopContinues(a_i, a_tries)
    /\ \E cond \in TreeConds :
         LET out == rmtree(cond) IN
         /\ a_rmtrees' = a_rmtrees + 1
         /\ IF out = "ok"
            THEN /\ a_fs' = a_fs \ {a_op.arg}
                 /\ a_succ_at' = a_rmtrees + 1
                 /\ a_pc' = "returned"
                 /\ UNCHANGED <<a_i, a_last_err, a_slept, a_raised>>
            ELSE IF out = "PermissionError"
            THEN /\ a_last_err' = Err(out, a_rmtrees + 1)
                 /\ a_slept' = a_slept + DelayMs
                 /\ a_i' = a_i + 1
                 /\ UNCHANGED <<a_fs, a_succ_at, a_pc, a_raised>>
            ELSE /\ a_raised' = Err(out, a_rmtrees + 1)
                 /\ a_pc' = "raised"
                 /\ UNCHANGED <<a_fs, a_succ_at, a_i, a_last_err, a_slept>>
    /\ UNCHANGED <<a_uuid, a_calls, a_op, a_before, a_reused, a_tries, a_renamed, a_renames>>

\* lines 208-214: the loop is exhausted, rename to the sibling name; an
\* OSError from os.rename falls back to the path itself
Rename ==
    /\ a_pc = "loop" /\ ~LoopContinues(a_i, a_tries)
    /\ a_renames' = a_renames + 1
    /\ \E rename_ok \in BOOLEAN :
         IF rename_ok
         THEN /\ a_renamed' = DeleteLaterName(a_op.arg)
              /\ a_fs' = (a_fs \ {a_op.arg}) \cup {DeleteLaterName(a_op.arg)}
         ELSE /\ a_renamed' = a_op.arg
              /\ UNCHANGED a_fs
    /\ a_pc' = "final"
    /\ UNCHANGED <<a_uuid, a_calls, a_op, a_before, a_reused, a_tries, a_i, a_last_err,
                   a_raised, a_rmtrees, a_slept, a_succ_at>>

\* lines 216-222: the final removal of the renamed tree
FinalAttempt ==
    /\ a_pc = "final"
    /\ \E cond \in TreeConds :
         LET out == rmtree(cond) IN
         /\ a_rmtrees' = a_rmtrees + 1
         /\ IF out = "ok"
            THEN /\ a_fs' = a_fs \ {a_renamed}
                 /\ a_succ_at' = a_rmtrees + 1
                 /\ a_pc' = "returned"
                 /\ UNCHANGED a_raised
            ELSE /\ a_raised' = LastResortRaises(a_last_err, Err(out, a_rmtrees + 1))
                 /\ a_pc' = "raised"
                 /\ UNCHANGED <<a_fs, a_succ_at>>
    /\ UNCHANGED <<a_uuid, a_calls, a_op, a_before, a_reused, a_tries, a_i, a_last_err,
                   a_renamed, a_slept, a_renames>>

-----------------------------------------------------------------------------
(* bin/run_maya_tests.py: main, in the outer process and in its child *)

\* mayapy_exe_from_location
mayapy_exe_from_location(maya_location, sysname) ==
    PathJoin(PathJoin(maya_location, "bin", sysname), "mayapy", sysname)
        \o (IF sysname = "Windows" THEN ".exe" ELSE "")

\* argparse on the internal guard: --_in-mayapy is a store_true option, and
\* argparse (allow_abbrev) accepts every prefix of it that no other option
\* of build_arg_parser starts with: all of them from "--_" on
FLAG == "--_in-mayapy"
FlagTokens ==
    {"--_", "--_i", "--_in", "--_in-", "--_in-m", "--_in-ma", "--_in-may",
     "--_in-maya", "--_in-mayap", FLAG}
ParsedInMayapy(argv_tail) == \E k \in 1..Len(argv_tail) : argv_tail[k] \in FlagTokens

\* spawn_mayapy_and_rerun without the flag appended to the child's arguments
Mut_ForwardedUnflagged(argv_tail) == argv_tail

\* spawn_mayapy_and_rerun, lines 264-266: the arguments the child is given
Forwarded(argv_tail) ==
    IF \A k \in 1..Len(argv_tail) : argv_tail[k] # FLAG
    THEN Append(argv_tail, FLAG) ELSE argv_tail

\* spawn_mayapy_and_rerun dropping the child's return code
Mut_SpawnReturnsZero(returncode) == 0

\* spawn_mayapy_and_rerun, line 273: int(proc.returncode)
SpawnReturns(returncode) == returncode

\* raise SystemExit(n): the process's exit status
ExitStatus(n) == n % 256
\* an exception nobody catches ends the interpreter with status 1
UncaughtStatus == 1

\* the cleanup only after a body that did not raise (no try/finally)
Mut_CleanupOnlyOnSuccess(clean, maya_app_dir, dirs, exc) ==
    clean /\ maya_app_dir # None /\ maya_app_dir \in dirs /\ exc = ""

\* main, lines 359-360, in the finally clause: is _rmtree_with_retries called
\* (exc: the exception the try body raised, "" when none)
CleanupRuns(clean, maya_app_dir, dirs, exc) ==
    clean /\ maya_app_dir # None /\ maya_app_dir \in dirs

\* what a whole _rmtree_with_retries(path) call can leave behind: the tree
\* removed; the tree renamed and left, an exception raised; nothing changed,
\* an exception raised
RmtreeResults(path, dirs) ==
    { [dirs |-> dirs \ {path}, raised |-> FALSE],
      [dirs |-> (dirs \ {path}) \cup {DeleteLaterName(path)}, raised |-> TRUE],
      [dirs |-> dirs, raised |-> TRUE] }

MaxProcs == 3
RunSysnames == {"Linux", "Windows"}
RunVersions == {2022}
RunMayaPaths == {None, "/x"}
RunInstallMaps ==
    { Dict(NoItems),
      Dict([o \in {"windows", "darwin", "linux"} |-> VerMap({"2022"}, "/y")]) }
RunEnvLocations == {None, "/z"}
\* where a mayapy binary may be installed
Candidates(sysname) ==
    {"/x", "/y2022", "/z"}
        \cup {default_maya_location(_normalize_os_key(sysname), v) : v \in RunVersions}
Binaries(sysname) == {mayapy_exe_from_location(l, sysname) : l \in Candidates(sysname)}
\* the package roots given and the directories laid out for them
RunPackageArgs(sysname) ==
    IF sysname = "Windows" THEN {<<"D:\\pkgA">>, <<"D:\\pkgA", "D:\\pkgB">>}
    ELSE {<<"/pkgA">>, <<"/pkgA", "pkgC">>}
RunLayouts(sysname) ==
    LET all == RootArgs(sysname)
        one == IF sysname = "Windows" THEN "D:\\pkgA" ELSE "/pkgA"
        full == Layout(all, {one}, sysname)
    IN  { full,
          full \ {PathJoin(abspath(one, sysname), "tests", sysname)},
          Layout(all \ {one}, {}, sysname) }
\* the exit codes of a host interpreter that ends without running the script
HostExitCodes == {2, 255}

Proc(argv_tail, in_mayapy, environ) ==
    [ pc           |-> "start",
      argv_tail    |-> argv_tail,     \* sys.argv[1:] beyond m_args
      in_mayapy    |-> in_mayapy,     \* is_running_in_mayapy()
      environ      |-> environ,       \* os.environ
      environ0     |-> environ,       \* os.environ as the process found it
      prompt       |-> "none",        \* input() of --pause: "none" | "ok" | "EOFError"
      packages     |-> <<>>,
      maya_location |-> None,
      maya_app_dir |-> None,
      exc          |-> "",            \* the exception the try body raised
      entered      |-> FALSE,         \* the try statement was entered
      driver       |-> "none",        \* how run_tests_from_commandline ended
      status       |-> -1,            \* the exit status, -1 while running
      spawned      |-> 0,             \* children spawned
      inits        |-> 0,             \* maya.standalone.initialize() calls
      created      |-> 0,             \* isolation directories created
      rm_calls     |-> 0,             \* _rmtree_with_retries calls
      warned       |-> FALSE ]        \* "Warning: could not remove ..." printed

RunIdle ==
    /\ m_sysname = "" /\ m_args = <<>> /\ m_installs = NotADict
    /\ m_dirs = {} /\ m_uuid = 0 /\ m_procs = <<>>

InitRun ==
    /\ m_sysname \in RunSysnames
    /\ m_args \in [ maya : RunVersions, maya_path : RunMayaPaths,
                    packages : RunPackageArgs(m_sysname),
                    clean : BOOLEAN, pause : BOOLEAN ]
    /\ m_installs \in RunInstallMaps
    /\ \E layout \in RunLayouts(m_sysname), bins \in {{}, Binaries(m_sysname)} :
          m_dirs = layout \cup bins
    /\ m_uuid = 0
    /\ \E tail \in {<<>>, <<FLAG>>, <<"--_in">>, <<"--_">>}, in_mayapy \in BOOLEAN,
          loc \in RunEnvLocations :
          m_procs = << Proc(tail, in_mayapy,
                            [n \in EnvNames |-> IF n = "MAYA_LOCATION" THEN loc ELSE None]) >>

\* the process at position i takes a step that changes only its own record
Step(i, new) == m_procs' = [m_procs EXCEPT ![i] = new]
Exits(p, status) == [p EXCEPT !.pc = "exit", !.status = status]

\* line 323: packages = [package_from_root(p) for p in args.packages]
MainPackages(i) ==
    LET p == m_procs[i]
        pk == [k \in 1..Len(m_args.packages) |->
                  package_from_root(m_args.packages[k], m_dirs, m_sysname)]
    IN  /\ p.pc = "start"
        /\ IF \E k \in 1..Len(pk) : pk[k].raised # ""
           THEN Step(i, Exits(p, UncaughtStatus))
           ELSE Step(i, [p EXCEPT !.pc = "resolve", !.packages = pk])
        /\ UNCHANGED <<m_sysname, m_args, m_installs, m_dirs, m_uuid>>

\* the host interpreter a child was started under ends by itself, before the
\* script runs
HostExits(i, code) ==
    LET p == m_procs[i]
    IN  /\ i > 1 /\ p.pc = "start"
        /\ Step(i, Exits(p, code))
        /\ UNCHANGED <<m_sysname, m_args, m_installs, m_dirs, m_uuid>>

\* line 332 left out
Mut_ExportLocationSkipped(environ, loc) == environ

\* line 332: os.environ["MAYA_LOCATION"] = maya_location
ExportLocation(environ, loc) == [environ EXCEPT !["MAYA_LOCATION"] = loc]

\* lines 326-332: resolve the location and export it
MainResolve(i) ==
    LET p == m_procs[i]
        loc == resolve_maya_location(m_args.maya, m_args.maya_path, m_installs,
                                     m_sysname, p.environ["MAYA_LOCATION"])
    IN  /\ p.pc = "resolve"
        /\ Step(i, [p EXCEPT !.pc = "decide", !.maya_location = loc,
                             !.environ = ExportLocation(@, loc)])
        /\ UNCHANGED <<m_sysname, m_args, m_installs, m_dirs, m_uuid>>

MustRelaunch(p) == ~p.in_mayapy /\ ~ParsedInMayapy(p.argv_tail)

\* the child started with an empty environment
Mut_ChildEnvironCleared(environ) == [n \in EnvNames |-> None]

\* line 272: subprocess.run(cmd, env=os.environ.copy())
ChildEnviron(environ) == environ

\* lines 335-336 and spawn_mayapy_and_rerun up to subprocess.run: the binary
\* is missing (RuntimeError), or the child is started and waited for
MainSpawn(i) ==
    LET p == m_procs[i]
        exe == mayapy_exe_from_location(p.maya_location, m_sysname)
    IN  /\ p.pc = "decide" /\ MustRelaunch(p)
        /\ IF exe \notin m_dirs
           THEN Step(i, Exits(p, UncaughtStatus))
           ELSE /\ i = Len(m_procs) /\ Len(m_procs) < MaxProcs
                /\ \E in_mayapy \in BOOLEAN :
                     m_procs' = Append([m_procs EXCEPT ![i] =
                                           [p EXCEPT !.pc = "wait", !.spawned = @ + 1]],
                                       Proc(Forwarded(p.argv_tail), in_mayapy,
                                            ChildEnviron(p.environ)))
        /\ UNCHANGED <<m_sysname, m_args, m_installs, m_dirs, m_uuid>>

\* subprocess.run returns; lines 273, 336, 371: the child's return code is
\* main's result and the argument of SystemExit
MainReap(i) ==
    LET p == m_procs[i]
    IN  /\ p.pc = "wait" /\ i < Len(m_procs) /\ m_procs[i + 1].pc = "exit"
        /\ Step(i, Exits(p, ExitStatus(SpawnReturns(m_procs[i + 1].status))))
        /\ UNCHANGED <<m_sysname, m_args, m_installs, m_dirs, m_uuid>>

\* line 339: the isolation directory, only with --clean-maya-app-dir
MainAcquire(i) ==
    LET p == m_procs[i]
        r == get_clean_maya_app_dir(None, m_dirs, m_uuid)
    IN  /\ p.pc = "decide" /\ ~MustRelaunch(p)
        /\ IF m_args.clean
           THEN /\ Step(i, [p EXCEPT !.pc = "configure", !.maya_app_dir = r.ret,
                                     !.created = @ + 1])
                /\ m_dirs' = r.dirs
                /\ m_uuid' = m_uuid + 1
           ELSE /\ Step(i, [p EXCEPT !.pc = "configure"])
                /\ UNCHANGED <<m_dirs, m_uuid>>
        /\ UNCHANGED <<m_sysname, m_args, m_installs>>

\* line 341
MainConfigure(i) ==
    LET p == m_procs[i]
    IN  /\ p.pc = "configure"
        /\ Step(i, [p EXCEPT !.pc = "import", !.entered = TRUE,
                       !.environ = configure_env_for_packages(p.packages, p.maya_app_dir,
                                                              p.environ, m_sysname)])
        /\ UNCHANGED <<m_sysname, m_args, m_installs, m_dirs, m_uuid>>

\* line 352: import mayaunittest runs the module's top level, which raises
\* ImportError where maya.cmds cannot be imported and AttributeError at the
\* class statement of MayaTestCase (python/mayaunittest.py line 240) where
\* unittest has no attribute MayaTestCase, as in the standard library;
\* otherwise it completes
ImportEnds == {"", "ImportError", "AttributeError"}
MainImport(i) ==
    LET p == m_procs[i]
    IN  /\ p.pc = "import"
        /\ \E exc \in ImportEnds :
             IF exc = "" THEN Step(i, [p EXCEPT !.pc = "run"])
             ELSE Step(i, [p EXCEPT !.pc = "finally", !.exc = exc])
        /\ UNCHANGED <<m_sysname, m_args, m_installs, m_dirs, m_uuid>>

\* lines 354-357: run_tests_from_commandline initializes the runtime, runs
\* the tests and returns (all passed, or some failed), or raises
DriverEnds == {"passed", "failed", "raised"}
MainRunDriver(i) ==
    LET p == m_procs[i]
    IN  /\ p.pc = "run"
        /\ \E how \in DriverEnds :
             Step(i, [p EXCEPT !.pc = "finally", !.inits = @ + 1, !.driver = how,
                               !.exc = IF how = "raised" THEN "Exception" ELSE ""])
        /\ UNCHANGED <<m_sysname, m_args, m_installs, m_dirs, m_uuid>>

\* lines 358-362, the finally clause entered after the return of line 357 or
\* an exception: with an isolation directory to remove
\* _rmtree_with_retries is called, which takes its time (it sleeps between
\* attempts, line 204)
MainFinally(i) ==
    LET p == m_procs[i]
    IN  /\ p.pc = "finally"
        /\ IF CleanupRuns(m_args.clean, p.maya_app_dir, m_dirs, p.exc)
           THEN Step(i, [p EXCEPT !.pc = "removing", !.rm_calls = @ + 1])
           ELSE Step(i, [p EXCEPT !.pc = "pause"])
        /\ UNCHANGED <<m_sysname, m_args, m_installs, m_dirs, m_uuid>>

\* lines 362-364: _rmtree_with_retries returns, or raises and the warning is
\* printed
MainCleanupReturns(i) ==
    LET p == m_procs[i]
    IN  /\ p.pc = "removing"
        /\ \E r \in RmtreeResults(p.maya_app_dir, m_dirs) :
             /\ m_dirs' = r.dirs
             /\ Step(i, [p EXCEPT !.pc = "pause", !.warned = r.raised])
        /\ UNCHANGED <<m_sysname, m_args, m_installs, m_uuid>>

\* lines 366-367 and 371: with --pause the process waits in input(), which
\* returns or raises EOFError when stdin is at its end; then the process
\* ends, with the 0 of line 357 unless an exception is on its way
MainPause(i) ==
    LET p == m_procs[i]
    IN  /\ p.pc = "pause"
        /\ \E input_ok \in BOOLEAN :
             /\ m_args.pause \/ input_ok
             /\ LET status == IF ~input_ok \/ p.exc # "" THEN UncaughtStatus
                              ELSE ExitStatus(0)
                IN  Step(i, [Exits(p, status) EXCEPT
                                !.prompt = IF ~m_args.pause THEN "none"
                                           ELSE IF input_ok THEN "ok" ELSE "EOFError"])
        /\ UNCHANGED <<m_sysname, m_args, m_installs, m_dirs, m_uuid>>

-----------------------------------------------------------------------------
(* python/mayaunittest.py: get_tests, add_to_path *)

\* x in seq
Contains(seq, x) == \E k \in 1..Len(seq) : seq[k] = x

\* add_to_path(path): sys.path afterwards and the value returned
add_to_path(path, sys_path, exists) ==
    IF path \in exists /\ ~Contains(sys_path, path)
    THEN [sys_path |-> <<path>> \o sys_path, ret |-> TRUE]
    ELSE [sys_path |-> sys_path, ret |-> FALSE]

\* line 117: [p for p in directories if add_to_path(p)]: sys.path and the
\* list built, the directories taken in order
RECURSIVE AddDirectories(_, _, _, _)
AddDirectories(directories, sys_path, exists, added) ==
    IF directories = <<>> THEN [sys_path |-> sys_path, added |-> added]
    ELSE LET r == add_to_path(Head(directories), sys_path, exists)
         IN  AddDirectories(Tail(directories), r.sys_path, exists,
                            IF r.ret THEN Append(added, Head(directories)) ELSE added)

\* list.remove(x): the first occurrence of x taken out
RECURSIVE ListRemove(_, _)
ListRemove(list, x) ==
    IF list = <<>> THEN <<>>
    ELSE IF Head(list) = x THEN Tail(list)
    ELSE <<Head(list)>> \o ListRemove(Tail(list), x)

\* the loop of lines 130-131 left out
Mut_RemoveAddedSkipped(sys_path, added) == sys_path

\* lines 130-131: for path in directories_added_to_path: sys.path.remove(path)
RECURSIVE RemoveAdded(_, _)
RemoveAdded(sys_path, added) ==
    IF added = <<>> THEN sys_path
    ELSE RemoveAdded(ListRemove(sys_path, Head(added)), Tail(added))

\* lines 124-127: unittest.TestLoader().discover(p) for each directory in
\* turn.  discover puts the directory (its absolute path; the directories
\* here are absolute) at the front of sys.path unless it is there, and
\* nothing takes it out again.  It raises ImportError, which ends get_tests,
\* for a directory that does not exist.  Otherwise it imports the
\* directory's test module by its name: a module of that name imported
\* earlier in the call is taken as it is (imported: the [name, dir] so far),
\* else the module comes from the first directory of sys.path that holds a
\* file of that name; discover raises ImportError when that is not the
\* directory it is looking at.
RECURSIVE DiscoverAll(_, _, _, _, _)
DiscoverAll(directories, sys_path, exists, contents, imported) ==
    IF directories = <<>> THEN [sys_path |-> sys_path, raised |-> ""]
    ELSE LET p  == Head(directories)
             sp == IF Contains(sys_path, p) THEN sys_path ELSE <<p>> \o sys_path
             Holds(q, name) == q \in exists /\ q \in DOMAIN contents /\ contents[q] = name
             Origin(name) ==
                 IF \E i \in imported : i.name = name
                 THEN (CHOOSE i \in imported : i.name = name).dir
                 ELSE sp[CHOOSE k \in 1..Len(sp) :
                            /\ Holds(sp[k], name)
                            /\ \A j \in 1..(k - 1) : ~Holds(sp[j], name)]
         IN  IF p \notin exists THEN [sys_path |-> sp, raised |-> "ImportError"]
             ELSE IF Origin(contents[p]) # p
             THEN [sys_path |-> sp, raised |-> "ImportError"]
             ELSE DiscoverAll(Tail(directories), sp, exists, contents,
                              imported \cup {[name |-> contents[p], dir |-> p]})

\* get_tests(directories, test) as a whole, in a process that has imported
\* no test module yet: the ways it can end, each with sys.path afterwards
\* and the exception raised ("" when it returns).  With a named test the
\* loader returns a suite (the added directories are removed) or raises
\* (they stay: ValueError for a name with an empty first part); without one
\* the directories are discovered.
get_tests(directories, test, sys_path, exists, contents) ==
    IF Truthy(test)
    THEN LET r == AddDirectories(directories, sys_path, exists, <<>>)
         IN  { [sys_path |-> RemoveAdded(r.sys_path, r.added), raised |-> ""],
               [sys_path |-> r.sys_path, raised |-> "ValueError"] }
    ELSE { DiscoverAll(directories, sys_path, exists, contents, {}) }

MaxDirs == 2
TestDirs == {"/pkgA/tests", "/pkgB/tests", "/gone/tests"}
ExistingTestDirs == {"/pkgA/tests", "/pkgB/tests"}
\* the test module of each existing directory: the same file name in both
\* (the repository's tests/test_sample.py), or different ones
TestContents ==
    { [p \in ExistingTestDirs |-> "test_sample"],
      [p \in ExistingTestDirs |-> IF p = "/pkgA/tests" THEN "test_sample" ELSE "test_other"] }
TestArgs == {None, "test_sample.SampleTests"}
SeqsUpTo(S, n) == UNION {[1..k -> S] : k \in 1..n}

GetTestsIdle ==
    /\ g_pc = "idle" /\ g_test = None /\ g_directories = <<>> /\ g_exists = {}
    /\ g_contents = <<>>
    /\ g_sys_path = <<>> /\ g_sys_path0 = <<>> /\ g_added = <<>>

InitGetTests ==
    /\ g_pc = "call" /\ g_test \in TestArgs
    /\ g_directories \in SeqsUpTo(TestDirs, MaxDirs)
    /\ g_exists = ExistingTestDirs /\ g_contents \in TestContents
    /\ g_sys_path \in SeqsUpTo({"/site"} \cup ExistingTestDirs, MaxDirs)
    /\ g_sys_path0 = g_sys_path /\ g_added = <<>>

\* lines 115-117 and 123: with a named test the candidate directories are
\* added to sys.path; without one nothing is added
GetTestsAdd ==
    /\ g_pc = "call"
    /\ LET r == AddDirectories(g_directories, g_sys_path, g_exists, <<>>)
       IN  IF Truthy(g_test)
           THEN g_sys_path' = r.sys_path /\ g_added' = r.added
           ELSE UNCHANGED <<g_sys_path, g_added>>
    /\ g_pc' = "loading"
    /\ UNCHANGED <<g_test, g_directories, g_exists, g_contents, g_sys_path0>>

\* lines 118-120: the loader returns a suite for the named test, or raises;
\* lines 124-127: without a named test every directory is discovered
GetTestsLoad ==
    /\ g_pc = "loading"
    /\ IF Truthy(g_test)
       THEN /\ \E ok \in BOOLEAN : g_pc' = IF ok THEN "loaded" ELSE "raised"
            /\ UNCHANGED g_sys_path
       ELSE LET r == DiscoverAll(g_directories, g_sys_path, g_exists, g_contents, {})
            IN  /\ g_sys_path' = r.sys_path
                /\ g_pc' = IF r.raised = "" THEN "loaded" ELSE "raised"
    /\ UNCHANGED <<g_test, g_directories, g_exists, g_contents, g_sys_path0, g_added>>

\* lines 129-133
GetTestsRemove ==
    /\ g_pc = "loaded"
    /\ g_sys_path' = RemoveAdded(g_sys_path, g_added)
    /\ g_pc' = "returned"
    /\ UNCHANGED <<g_test, g_directories, g_exists, g_contents, g_sys_path0, g_added>>

-----------------------------------------------------------------------------
(* python/mayaunittest.py: run_tests_from_commandline *)

\* os.path.realpath: symbolic links resolved, "" is the working directory
Realpath(path) ==
    IF path = "" THEN Cwd
    ELSE IF path = "/link_a" THEN "/a"
    ELSE path

\* os.environ.get('PYTHONPATH', '').split(os.pathsep)
PythonpathFields(v) == IF v.set THEN v.fields ELSE <<"">>

\* lines 156-161: realsyspath is computed once, then every field of
\* PYTHONPATH whose real path is not in it is inserted at the front
RECURSIVE InsertMissing(_, _, _)
InsertMissing(sys_path, realsyspath, fields) ==
    IF fields = <<>> THEN sys_path
    ELSE LET p == Realpath(Head(fields))
         IN  InsertMissing(IF Contains(realsyspath, p) THEN sys_path ELSE <<p>> \o sys_path,
                           realsyspath, Tail(fields))
Reconcile(sys_path, pythonpath) ==
    InsertMissing(sys_path, [k \in 1..Len(sys_path) |-> Realpath(sys_path[k])],
                  PythonpathFields(pythonpath))

\* float(s) of a version string: the number, or ValueError
UninitializeFrom == 2016
VersionNumbers == 2010..2030
PyFloat(str) ==
    IF \E n \in VersionNumbers : ToString(n) = str
    THEN [ok |-> TRUE, val |-> CHOOSE n \in VersionNumbers : ToString(n) = str]
    ELSE [ok |-> FALSE, val |-> 0]

\* the shutdown call made whatever the version is
Mut_ShutdownIgnoresVersion(about) == "uninitialize"

\* lines 169-170: the version probe and what follows it: "uninitialize",
\* "skip", or the exception raised
Shutdown(about) ==
    IF about.raises THEN "RuntimeError"
    ELSE IF ~PyFloat(about.value).ok THEN "ValueError"
    ELSE IF PyFloat(about.value).val >= UninitializeFrom THEN "uninitialize"
    ELSE "skip"

MaxFields == 2
MaxTests == 2
SysPaths == { <<"/site">>, <<"/a", "/site">>, <<"/link_a", "/site">>, <<"/cwd", "/site">> }
PathFields == {"", "/a", "/link_a", "/b"}
Pythonpaths ==
    {[set |-> FALSE, fields |-> <<>>]}
        \cup {[set |-> TRUE, fields |-> f] : f \in UNION {[1..n -> PathFields] : n \in 1..MaxFields}}
Abouts ==
    {[raises |-> TRUE, value |-> ""]}
        \cup {[raises |-> FALSE, value |-> v] :
                 v \in {"2015", "2016", "2022", "2016 Extension 2 SP1", "Preview Release 150"}}

DriverIdle ==
    /\ d_pc = "idle" /\ d_runtime = "NotInitialized" /\ d_inits = 0 /\ d_uninits = 0
    /\ d_sys_path = <<>> /\ d_sys_path0 = <<>>
    /\ d_pythonpath = [set |-> FALSE, fields |-> <<>>]
    /\ d_about = [raises |-> TRUE, value |-> ""] /\ d_tests = "none" /\ d_exc = ""
    /\ d_directories = <<>> /\ d_test = None /\ d_contents = <<>>
    /\ d_events = <<>>

InitDriver ==
    /\ d_pc = "call" /\ d_runtime = "NotInitialized" /\ d_inits = 0 /\ d_uninits = 0
    /\ d_sys_path \in SysPaths /\ d_sys_path0 = d_sys_path
    /\ d_pythonpath \in Pythonpaths
    /\ d_about \in Abouts /\ d_tests = "none" /\ d_exc = ""
    /\ d_directories \in {<<>>} \cup SeqsUpTo(TestDirs, MaxDirs)
    /\ d_test \in TestArgs /\ d_contents \in TestContents
    /\ d_events = <<>>

\* line 150
DriverInitialize ==
    /\ d_pc = "call"
    /\ d_inits' = d_inits + 1
    /\ \E ok \in BOOLEAN :
         IF ok THEN /\ d_runtime' = "Initialized" /\ d_pc' = "initialized"
                    /\ d_events' = Append(d_events, "initialize")
                    /\ UNCHANGED d_exc
         ELSE /\ d_pc' = "raised" /\ d_exc' = "RuntimeError"
              /\ UNCHANGED <<d_runtime, d_events>>
    /\ UNCHANGED <<d_uninits, d_sys_path, d_sys_path0, d_pythonpath, d_about,
                   d_directories, d_test, d_contents, d_tests>>

\* lines 156-164
DriverReconcile ==
    /\ d_pc = "initialized"
    /\ d_sys_path' = Reconcile(d_sys_path, d_pythonpath)
    /\ d_pc' = "reconciled"
    /\ d_events' = Append(d_events, "reconcile")
    /\ UNCHANGED <<d_runtime, d_inits, d_uninits, d_sys_path0, d_pythonpath, d_about,
                   d_directories, d_test, d_contents, d_tests, d_exc>>

\* line 166: run_tests collects the tests (get_tests, which changes
\* sys.path) and, unless the collection raised, executes n of them
\* (runner.run); it returns whatever the tests did, or raises at the end of
\* the run
DriverRunTests ==
    /\ d_pc = "reconciled"
    /\ \E g \in get_tests(d_directories, d_test, d_sys_path, ExistingTestDirs, d_contents) :
         /\ d_sys_path' = g.sys_path
         /\ IF g.raised # ""
            THEN /\ d_events' = Append(d_events, "discover")
                 /\ d_tests' = "raised" /\ d_pc' = "raised" /\ d_exc' = g.raised
            ELSE \E ok \in BOOLEAN, n \in 0..MaxTests :
                 /\ d_events' = d_events \o <<"discover">> \o [k \in 1..n |-> "test"]
                 /\ IF ok THEN /\ d_tests' = "returned" /\ d_pc' = "tests_done"
                               /\ UNCHANGED d_exc
                    ELSE /\ d_tests' = "raised" /\ d_pc' = "raised"
                         /\ d_exc' = "Exception"
    /\ UNCHANGED <<d_runtime, d_inits, d_uninits, d_sys_path0, d_pythonpath, d_about,
                   d_directories, d_test, d_contents>>

\* lines 168-170
DriverShutdown ==
    /\ d_pc = "tests_done"
    /\ LET what == Shutdown(d_about) IN
         IF what = "uninitialize"
         THEN /\ d_uninits' = d_uninits + 1 /\ d_runtime' = "Uninitialized"
              /\ d_events' = Append(d_events, "uninitialize")
              /\ d_pc' = "returned" /\ UNCHANGED d_exc
         ELSE IF what = "skip"
         THEN /\ d_pc' = "returned" /\ UNCHANGED <<d_uninits, d_runtime, d_exc, d_events>>
         ELSE /\ d_pc' = "raised" /\ d_exc' = what
              /\ UNCHANGED <<d_uninits, d_runtime, d_events>>
    /\ UNCHANGED <<d_inits, d_sys_path, d_sys_path0, d_pythonpath, d_about,
                   d_directories, d_test, d_contents, d_tests>>

-----------------------------------------------------------------------------
(* python/mayaunittest.py: MayaTestCase.get_temp_filename, delete_temp_files *)

\* Settings.temp_dir as the class body sets it (line 179)
TempDir == "/tmp/mayaunittest/uuid"

\* a relative file name, as os.path.dirname and os.path.splitext take it
\* apart: directory part ("" when none), stem, extension (with its dot)
FileName(dir, stem, ext) == [dir |-> dir, stem |-> stem, ext |-> ext]
TempNames == { FileName("", "a", ".txt"), FileName("", "a1", ".txt"),
               FileName("sub", "b", ".ma"), FileName("", "noext", "") }

\* os.path.dirname(os.path.join(temp_dir, file_name))
ParentDir(temp_dir, name) ==
    IF name.dir = "" THEN temp_dir ELSE temp_dir \o "/" \o name.dir
\* os.path.splitext(candidate)[0]
Base(temp_dir, name) == ParentDir(temp_dir, name) \o "/" \o name.stem
\* lines 325, 335: the candidate, and f"{base}{count}{ext}"
Candidate(temp_dir, name) == Base(temp_dir, name) \o name.ext
Numbered(temp_dir, name, count) == Base(temp_dir, name) \o ToString(count) \o name.ext

\* lines 331-335: the first of candidate, base1ext, base2ext, ... that does
\* not exist
RECURSIVE FirstFree(_, _, _, _)
FirstFree(temp_dir, name, count, files) ==
    LET path == IF count = 0 THEN Candidate(temp_dir, name)
                ELSE Numbered(temp_dir, name, count)
    IN  IF path \in files THEN FirstFree(temp_dir, name, count + 1, files) ELSE path

MaxTempCalls == 3
MaxTempOps == 5

\* the directories of the tree rooted at dir, and the files directly in one
\* of them
TreeDirs(dir) == {ParentDir(dir, name) : name \in TempNames} \cup {dir}
FilesIn(dir, sub) ==
    UNION { {Candidate(dir, name)} \cup {Numbered(dir, name, c) : c \in 1..MaxTempCalls} :
            name \in {n \in TempNames : ParentDir(dir, n) = sub} }

\* shutil.rmtree(dir) with no error handler, stuck being the files whose
\* removal fails: the ways it can end, each with the files and directories
\* afterwards and whether it raised.  With nothing stuck the tree is gone.
\* Otherwise it raises at the first stuck file it comes to, in the order
\* os.scandir lists the entries: the files kept include every stuck one, a
\* subdirectory with a stuck file stays, any other subdirectory is either
\* gone with all its files or untouched, and dir itself stays.
RmtreeOutcomes(dir, files, dirs, stuck) ==
    LET under == files \cap UNION {FilesIn(dir, sub) : sub \in TreeDirs(dir)}
        bad   == under \cap stuck
        subs  == (TreeDirs(dir) \ {dir}) \cap dirs
        Whole(kept, keptdirs) ==
            /\ bad \subseteq kept
            /\ \A sub \in subs :
                  LET in == FilesIn(dir, sub) \cap under
                  IN  IF sub \in keptdirs
                      THEN in \cap bad = {} => in \subseteq kept
                      ELSE in \cap kept = {}
    IN  IF bad = {}
        THEN { [files |-> files \ under, dirs |-> dirs \ TreeDirs(dir), raised |-> FALSE] }
        ELSE { [files |-> (files \ under) \cup c[1],
                dirs |-> (dirs \ TreeDirs(dir)) \cup {dir} \cup c[2],
                raised |-> TRUE] :
               c \in {x \in (SUBSET under) \X (SUBSET subs) : Whole(x[1], x[2])} }

\* the files whose removal fails at one call: none, or one of them
StuckSets(files) == {{}} \cup {{f} : f \in files}

\* cls.files_created: the attribute lookup goes to the class's own list if it
\* has one, else to the list of MayaTestCase (line 248), which the classes
\* share
FilesCreatedOwner(own, cls) == IF cls \in own THEN cls ELSE "MayaTestCase"

TempIdle ==
    /\ t_temp_dir = "" /\ t_files = {} /\ t_dirs = {} /\ t_files_created = <<>>
    /\ t_own = {}
    /\ t_delete_files = FALSE /\ t_ops = 0 /\ t_returned = <<>>

\* MayaTestCase and two test classes derived from it, as the class
\* statements leave them
InitTemp ==
    /\ t_temp_dir = TempDir /\ t_files = {} /\ t_dirs \in {{}, {"/caller"}}
    /\ t_files_created = [cls \in {"MayaTestCase", "A", "B"} |-> <<>>]
    /\ t_own = {"MayaTestCase"}
    /\ t_delete_files \in BOOLEAN /\ t_ops = 0 /\ t_returned = <<>>

\* set_temp_dir(directory), lines 193-201: RuntimeError for a directory that
\* does not exist
TempSetTempDir(directory) ==
    /\ t_ops < MaxTempOps /\ t_ops' = t_ops + 1
    /\ t_temp_dir' = IF directory \in t_dirs THEN directory ELSE t_temp_dir
    /\ t_returned' = <<>>
    /\ UNCHANGED <<t_files, t_dirs, t_files_created, t_own, t_delete_files>>

\* set_delete_files(value), lines 204-209
TempSetDeleteFiles(value) ==
    /\ t_ops < MaxTempOps /\ t_ops' = t_ops + 1
    /\ t_delete_files' = value
    /\ t_returned' = <<>>
    /\ UNCHANGED <<t_temp_dir, t_files, t_dirs, t_files_created, t_own>>

\* cls.get_temp_filename(file_name): line 337 appends to the list the lookup
\* finds
GetTempFilename(cls, name) ==
    /\ t_ops < MaxTempOps /\ t_ops' = t_ops + 1
    /\ LET owner == FilesCreatedOwner(t_own, cls)
           path  == FirstFree(t_temp_dir, name, 0, t_files)
       IN  /\ Len(t_files_created[owner]) < MaxTempCalls
           /\ t_files_created' = [t_files_created EXCEPT ![owner] = Append(@, path)]
           /\ t_returned' = Append(t_returned, [cls |-> cls, name |-> name, path |-> path])
    /\ t_dirs' = t_dirs \cup {t_temp_dir, ParentDir(t_temp_dir, name)}
    /\ UNCHANGED <<t_temp_dir, t_files, t_own, t_delete_files>>

\* a test writes a file it asked a name for
WriteTempFile(cls, k) ==
    /\ t_ops < MaxTempOps /\ t_ops' = t_ops + 1
    /\ k \in 1..Len(t_files_created[cls])
    /\ Cardinality(t_files) < MaxTempCalls
    /\ t_files_created[cls][k] \notin t_files
    /\ \E name \in TempNames : ParentDir(t_temp_dir, name) \in t_dirs
           /\ t_files_created[cls][k] \in FilesIn(t_temp_dir, ParentDir(t_temp_dir, name))
    /\ t_files' = t_files \cup {t_files_created[cls][k]}
    /\ t_returned' = <<>>
    /\ UNCHANGED <<t_temp_dir, t_dirs, t_files_created, t_own, t_delete_files>>

\* cls.delete_temp_files, lines 294-315: nothing when Settings.delete_files
\* is off; otherwise every file of the list the lookup finds that exists is
\* removed, the class is given a list of its own, empty (line 308: the list
\* that was looked up keeps its entries unless it was the class's own), and
\* the tree of Settings.temp_dir is removed if it exists.  A removal that
\* fails (stuck: the files that cannot be removed now) is logged, never
\* raised.
DeleteTempFiles(cls) ==
    /\ t_ops < MaxTempOps /\ t_ops' = t_ops + 1
    /\ IF ~t_delete_files
       THEN UNCHANGED <<t_files, t_dirs, t_files_created, t_own>>
       ELSE \E stuck \in StuckSets(t_files) :
              LET list    == t_files_created[FilesCreatedOwner(t_own, cls)]
                  created == {list[k] : k \in 1..Len(list)}
                  files1  == t_files \ (created \ stuck)
              IN  /\ t_files_created' = [t_files_created EXCEPT ![cls] = <<>>]
                  /\ t_own' = t_own \cup {cls}
                  /\ IF t_temp_dir \in t_dirs
                     THEN \E r \in RmtreeOutcomes(t_temp_dir, files1, t_dirs, stuck) :
                             t_files' = r.files /\ t_dirs' = r.dirs
                     ELSE t_files' = files1 /\ UNCHANGED t_dirs
    /\ t_returned' = <<>>
    /\ UNCHANGED <<t_temp_dir, t_delete_files>>

\* TestResult.stopTestRun, lines 382-383: the tree of Settings.temp_dir is
\* removed when Settings.delete_files is on; the registered names stay.  A
\* removal that fails is raised to the runner.
TempStopTestRun ==
    /\ t_ops < MaxTempOps /\ t_ops' = t_ops + 1
    /\ IF t_delete_files /\ t_temp_dir \in t_dirs
       THEN \E stuck \in StuckSets(t_files) :
              \E r \in RmtreeOutcomes(t_temp_dir, t_files, t_dirs, stuck) :
                 t_files' = r.files /\ t_dirs' = r.dirs
       ELSE UNCHANGED <<t_files, t_dirs>>
    /\ t_returned' = <<>>
    /\ UNCHANGED <<t_temp_dir, t_files_created, t_own, t_delete_files>>

-----------------------------------------------------------------------------
(* python/mayaunittest.py: TestResult, ScriptEditorState, MayaTestCase.tearDown *)

FlagNames == {"suppressResults", "suppressErrors", "suppressWarnings", "suppressInfo"}
AllOff == [f \in FlagNames |-> FALSE]
AllSuppressed == [f \in FlagNames |-> TRUE]
InfoOnly == [f \in FlagNames |-> f = "suppressInfo"]
\* the flag settings the host is put in from outside a run
HostFlagStates == {AllOff, InfoOnly}

\* ScriptEditorState's class attributes while they are None
NothingSaved == [valid |-> FALSE, vals |-> AllOff]

\* ScriptEditorState.suppress_output: the host's flags and the saved values
\* afterwards
suppress_output(buffer_output, flags, saved) ==
    IF buffer_output
    THEN [flags |-> AllSuppressed, saved |-> [valid |-> TRUE, vals |-> flags]]
    ELSE [flags |-> flags, saved |-> saved]

\* ScriptEditorState.restore_output: the host's flags afterwards
restore_output(flags, saved) == IF saved.valid THEN saved.vals ELSE flags

\* MayaTestCase.tearDown, line 350: does it call cmds.file(f=True, new=True)
TearDownResets(file_new, marker) == file_new /\ ~marker

\* how a test goes: skipped and setUp raising leave the test method and
\* tearDown uncalled
TestOutcomes == {"passed", "failed", "setUpError", "skipped"}
Executed(outcome) == outcome \in {"passed", "failed"}
NoTest == [outcome |-> "none", collector |-> "none", file_new |-> FALSE, marker |-> FALSE,
           resets |-> <<>>]

MaxRuns == 2
MaxRunTests == 2

TestsIdle ==
    /\ u_pc = "off" /\ u_collector = "none" /\ u_marker = FALSE
    /\ u_file_new = FALSE /\ u_buffer_output = FALSE /\ u_delete_files = FALSE
    /\ u_flags = AllOff /\ u_saved = NothingSaved /\ u_before = AllOff
    /\ u_logging = "NOTSET" /\ u_temp_exists = FALSE /\ u_runs = 0 /\ u_testno = 0
    /\ u_cur = NoTest /\ u_last_test = NoTest /\ u_run_end = "none" /\ u_after = u_flags

\* a process before its first run; the Settings have their defaults of lines
\* 182-190
InitTests ==
    /\ u_pc = "idle" /\ u_collector = "none" /\ u_marker = FALSE
    /\ u_file_new = TRUE /\ u_buffer_output = TRUE /\ u_delete_files = TRUE
    /\ u_flags \in HostFlagStates /\ u_saved = NothingSaved /\ u_before = u_flags
    /\ u_logging = "NOTSET" /\ u_temp_exists = FALSE /\ u_runs = 0 /\ u_testno = 0
    /\ u_cur = NoTest /\ u_last_test = NoTest /\ u_run_end = "none" /\ u_after = u_flags

\* set_buffer_output, set_file_new, set_delete_files, between runs
SetBufferOutput(value) ==
    /\ u_pc = "idle" /\ u_buffer_output' = value
    /\ UNCHANGED <<u_pc, u_collector, u_marker, u_file_new, u_delete_files, u_flags, u_saved,
                   u_before, u_logging, u_temp_exists, u_runs, u_testno, u_cur, u_last_test,
                   u_run_end,
                   u_after>>
SetFileNew(value) ==
    /\ u_pc = "idle" /\ u_file_new' = value
    /\ UNCHANGED <<u_pc, u_collector, u_marker, u_buffer_output, u_delete_files, u_flags,
                   u_saved, u_before, u_logging, u_temp_exists, u_runs, u_testno, u_cur,
                   u_last_test, u_run_end,
                   u_after>>
SetDeleteFiles(value) ==
    /\ u_pc = "idle" /\ u_delete_files' = value
    /\ UNCHANGED <<u_pc, u_collector, u_marker, u_file_new, u_buffer_output, u_flags, u_saved,
                   u_before, u_logging, u_temp_exists, u_runs, u_testno, u_cur, u_last_test,
                   u_run_end,
                   u_after>>

\* the host's flags are changed between runs (by the user, by a script)
HostSetsFlags(flags) ==
    /\ u_pc = "idle" /\ u_flags' = flags
    /\ UNCHANGED <<u_pc, u_collector, u_marker, u_file_new, u_buffer_output, u_delete_files,
                   u_saved, u_before, u_logging, u_temp_exists, u_runs, u_testno, u_cur,
                   u_last_test, u_run_end,
                   u_after>>

\* a run of the process, with TestResult (run_tests, lines 92-95) or with
\* another collector.  TextTestRunner.run calls result.startTestRun():
\* TestResult.startTestRun, lines 364-374; the plain collector's does nothing
StartTestRun(collector) ==
    /\ u_pc = "idle" /\ u_runs < MaxRuns
    /\ u_runs' = u_runs + 1 /\ u_testno' = 0 /\ u_pc' = "tests"
    /\ u_collector' = collector
    /\ u_before' = u_flags /\ u_run_end' = "none"
    /\ IF collector = "custom"
       THEN LET r == suppress_output(u_buffer_output, u_flags, u_saved)
            IN  /\ u_marker' = TRUE
                /\ u_flags' = r.flags /\ u_saved' = r.saved
                /\ u_logging' = IF u_buffer_output THEN "CRITICAL" ELSE u_logging
       ELSE UNCHANGED <<u_marker, u_flags, u_saved, u_logging>>
    /\ UNCHANGED <<u_file_new, u_buffer_output, u_delete_files, u_temp_exists,
                   u_cur, u_last_test, u_after>>

\* TestCase.run up to the end of the test method: startTest, setUp, the
\* method; a test may ask for temp files, which creates Settings.temp_dir
RunTest(outcome, makes_temp) ==
    /\ u_pc = "tests" /\ u_testno < MaxRunTests
    /\ u_cur' = [outcome |-> outcome, collector |-> u_collector, file_new |-> u_file_new,
                 marker |-> u_marker, resets |-> <<>>]
    /\ u_pc' = IF Executed(outcome) THEN "tearDown" ELSE "stopTest"
    /\ u_temp_exists' = (u_temp_exists \/ (makes_temp /\ Executed(outcome)))
    /\ UNCHANGED <<u_collector, u_marker, u_file_new, u_buffer_output, u_delete_files,
                   u_flags, u_saved, u_before, u_logging, u_runs, u_testno, u_last_test,
                   u_run_end,
                   u_after>>

\* MayaTestCase.tearDown, lines 349-353
TearDown ==
    /\ u_pc = "tearDown"
    /\ u_cur' = [u_cur EXCEPT !.resets =
                    IF TearDownResets(u_file_new, u_marker) THEN Append(@, "tearDown") ELSE @]
    /\ u_pc' = "stopTest"
    /\ UNCHANGED <<u_collector, u_marker, u_file_new, u_buffer_output, u_delete_files,
                   u_flags, u_saved, u_before, u_logging, u_temp_exists, u_runs, u_testno,
                   u_last_test, u_run_end,
                   u_after>>

\* result.stopTest(test): TestResult.stopTest, lines 389-395; the plain
\* collector's resets nothing
StopTest ==
    /\ u_pc = "stopTest"
    /\ u_last_test' = [u_cur EXCEPT !.resets =
                          IF u_collector = "custom" /\ u_file_new
                          THEN Append(@, "stopTest") ELSE @]
    /\ u_cur' = NoTest
    /\ u_testno' = u_testno + 1
    /\ u_pc' = "tests"
    /\ UNCHANGED <<u_collector, u_marker, u_file_new, u_buffer_output, u_delete_files,
                   u_flags, u_saved, u_before, u_logging, u_temp_exists, u_runs, u_run_end,
                   u_after>>

\* set_temp_dir(directory) between runs, lines 193-201: Settings.temp_dir
\* becomes a directory that exists, or RuntimeError for one that does not
SetTempDir(exists) ==
    /\ u_pc = "idle"
    /\ u_temp_exists' = (exists \/ u_temp_exists)
    /\ UNCHANGED <<u_pc, u_collector, u_marker, u_file_new, u_buffer_output, u_delete_files,
                   u_flags, u_saved, u_before, u_logging, u_runs, u_testno, u_cur,
                   u_last_test, u_run_end, u_after>>

\* MayaTestCase.tearDownClass, lines 267-271, which the suite calls when the
\* last test of a class is over: delete_temp_files (lines 296, 310-315)
\* removes the tree of Settings.temp_dir when Settings.delete_files is on; a
\* removal that fails is logged and the directory stays
TearDownClassDeletes ==
    /\ u_pc = "tests" /\ u_testno > 0
    /\ \E removed \in BOOLEAN :
          u_temp_exists' = IF u_delete_files /\ removed THEN FALSE ELSE u_temp_exists
    /\ UNCHANGED <<u_pc, u_collector, u_marker, u_file_new, u_buffer_output, u_delete_files,
                   u_flags, u_saved, u_before, u_logging, u_runs, u_testno, u_cur,
                   u_last_test, u_run_end, u_after>>

\* TestResult.stopTestRun, lines 382-385: is the marker still in os.environ
\* afterwards; an exception of shutil.rmtree leaves line 385 unexecuted
StopTestRunMarker(marker, rmtree_raises) == IF rmtree_raises THEN marker ELSE FALSE

\* TextTestRunner.run calls result.stopTestRun(): TestResult.stopTestRun,
\* lines 376-387; the plain collector's does nothing
StopTestRun ==
    /\ u_pc = "tests"
    /\ u_pc' = "idle"
    /\ IF u_collector = "custom"
       THEN /\ u_logging' = IF u_buffer_output THEN "NOTSET" ELSE u_logging
            /\ u_flags' = restore_output(u_flags, u_saved)
            /\ \E rmtree_raises \in BOOLEAN :
                 /\ rmtree_raises => (u_delete_files /\ u_temp_exists)
                 /\ u_temp_exists' = IF u_delete_files /\ ~rmtree_raises THEN FALSE
                                     ELSE u_temp_exists
                 /\ u_marker' = StopTestRunMarker(u_marker, rmtree_raises)
                 /\ u_run_end' = IF rmtree_raises THEN "raised" ELSE "returned"
       ELSE /\ u_run_end' = "returned"
            /\ UNCHANGED <<u_logging, u_flags, u_marker, u_temp_exists>>
    /\ u_after' = u_flags'
    /\ UNCHANGED <<u_collector, u_file_new, u_buffer_output, u_delete_files, u_saved,
                   u_before, u_runs, u_testno, u_cur, u_last_test>>

-----------------------------------------------------------------------------
(* python/mayaunittest.py: MayaTestCase.load_plugin, unload_plugins, tearDownClass *)

\* test classes derived from MayaTestCase, and plugin names
Classes == {"A", "B"}
Plugins == {"p", "q"}
MaxPluginOps == 4

\* cls.plugins_loaded: the attribute lookup goes to the class's own [] if it
\* has one, else to the set of the base class, which all classes share
IsSet(own, c) == own[c] = "inherited"
plugins_loaded(own, base, c) == IF IsSet(own, c) THEN base ELSE {}

NoCall == [op |-> "none", cls |-> "none", recorded |-> {}, attempted |-> {}, raised |-> ""]

PluginIdle ==
    /\ p_base = {} /\ p_own = [c \in Classes |-> "off"] /\ p_host = {}
    /\ p_loader = [pl \in Plugins |-> "none"] /\ p_unloads = [pl \in Plugins |-> <<>>]
    /\ p_ops = 0 /\ p_last = NoCall

\* lines 248-251: the class attributes as the class statement leaves them
InitPlugins ==
    /\ p_base = {} /\ p_own = [c \in Classes |-> "inherited"] /\ p_host = {}
    /\ p_loader = [pl \in Plugins |-> "none"] /\ p_unloads = [pl \in Plugins |-> <<>>]
    /\ p_ops = 0 /\ p_last = NoCall

\* load_plugin, lines 273-280: cmds.loadPlugin, then plugins_loaded.add,
\* which a list does not have
LoadPlugin(c, plugin) ==
    /\ p_ops < MaxPluginOps /\ p_ops' = p_ops + 1
    /\ p_host' = p_host \cup {plugin}
    /\ p_loader' = [p_loader EXCEPT ![plugin] = c]
    /\ p_unloads' = [p_unloads EXCEPT ![plugin] = <<>>]
    /\ p_base' = IF IsSet(p_own, c) THEN p_base \cup {plugin} ELSE p_base
    /\ p_last' = [op |-> "load_plugin", cls |-> c, recorded |-> {}, attempted |-> {},
                  raised |-> IF IsSet(p_own, c) THEN "" ELSE "AttributeError"]
    /\ UNCHANGED p_own

\* tearDownClass, lines 267-271, with the unload_plugins in force, the second
\* definition (lines 282-291): the plugins are unloaded in the set's
\* iteration order; the first cmds.unloadPlugin that raises ends the loop and
\* the call, the collection left as it was; otherwise the class is given []
TearDownClass(c) ==
    /\ p_ops < MaxPluginOps /\ p_ops' = p_ops + 1
    /\ LET recorded == plugins_loaded(p_own, p_base, c) IN
       \E attempted \in SUBSET recorded, failed \in SUBSET recorded :
          /\ Cardinality(failed) <= 1 /\ failed \subseteq attempted
          /\ failed = {} => attempted = recorded
          /\ p_host' = p_host \ (attempted \ failed)
          /\ p_unloads' = [pl \in Plugins |->
                              IF pl \in attempted \ failed THEN Append(p_unloads[pl], c)
                              ELSE p_unloads[pl]]
          /\ p_own' = IF failed = {} THEN [p_own EXCEPT ![c] = "list"] ELSE p_own
          /\ p_last' = [op |-> "tearDownClass", cls |-> c, recorded |-> recorded,
                        attempted |-> attempted,
                        raised |-> IF failed = {} THEN "" ELSE "RuntimeError"]
    /\ UNCHANGED <<p_base, p_loader>>

-----------------------------------------------------------------------------
(* Specifications *)

resolveOthers == <<envVars, appVars, runVars, driverVars, tempVars, testsVars, pluginVars, getTestsVars>>
NextResolve == Resolve /\ UNCHANGED resolveOthers
InitSpecResolve == InitResolve /\ EnvIdle /\ AppIdle /\ RunIdle /\ DriverIdle /\ TempIdle /\ TestsIdle /\ PluginIdle /\ GetTestsIdle
SpecResolve == InitSpecResolve /\ [][NextResolve]_vars

envOthers == <<resolveVars, appVars, runVars, driverVars, tempVars, testsVars, pluginVars, getTestsVars>>
NextEnv == ConfigureEnv /\ UNCHANGED envOthers
InitSpecEnv == ResolveIdle /\ InitEnv /\ AppIdle /\ RunIdle /\ DriverIdle /\ TempIdle /\ TestsIdle /\ PluginIdle /\ GetTestsIdle
SpecEnv == InitSpecEnv /\ [][NextEnv]_vars

appOthers == <<resolveVars, envVars, runVars, driverVars, tempVars, testsVars, pluginVars, getTestsVars>>
NextAppDir ==
    \/ (\E app_dir \in AcquireArgs : Acquire(app_dir)) /\ UNCHANGED appOthers
    \/ (\E path \in ReleaseArgs, tries \in TriesArgs : ReleaseCall(path, tries))
           /\ UNCHANGED appOthers
    \/ LoopAttempt /\ UNCHANGED appOthers
    \/ Rename /\ UNCHANGED appOthers
    \/ FinalAttempt /\ UNCHANGED appOthers
InitSpecAppDir == ResolveIdle /\ EnvIdle /\ RunIdle /\ DriverIdle /\ InitAppDir /\ TempIdle /\ TestsIdle /\ PluginIdle /\ GetTestsIdle
\* a call of _rmtree_with_retries that has started runs on: the program is
\* sequential and every step of the call is enabled until the call ends
ReleaseRuns == (LoopAttempt \/ Rename \/ FinalAttempt) /\ UNCHANGED appOthers
SpecAppDir == InitSpecAppDir /\ [][NextAppDir]_vars /\ WF_vars(ReleaseRuns)

runOthers == <<resolveVars, envVars, appVars, driverVars, tempVars, testsVars, pluginVars, getTestsVars>>
NextRun ==
    \/ (\E i \in 1..Len(m_procs) : MainPackages(i)) /\ UNCHANGED runOthers
    \/ (\E i \in 1..Len(m_procs), c \in HostExitCodes : HostExits(i, c))
           /\ UNCHANGED runOthers
    \/ (\E i \in 1..Len(m_procs) : MainResolve(i)) /\ UNCHANGED runOthers
    \/ (\E i \in 1..Len(m_procs) : MainSpawn(i)) /\ UNCHANGED runOthers
    \/ (\E i \in 1..Len(m_procs) : MainReap(i)) /\ UNCHANGED runOthers
    \/ (\E i \in 1..Len(m_procs) : MainAcquire(i)) /\ UNCHANGED runOthers
    \/ (\E i \in 1..Len(m_procs) : MainConfigure(i)) /\ UNCHANGED runOthers
    \/ (\E i \in 1..Len(m_procs) : MainImport(i)) /\ UNCHANGED runOthers
    \/ (\E i \in 1..Len(m_procs) : MainRunDriver(i)) /\ UNCHANGED runOthers
    \/ (\E i \in 1..Len(m_procs) : MainFinally(i)) /\ UNCHANGED runOthers
    \/ (\E i \in 1..Len(m_procs) : MainCleanupReturns(i)) /\ UNCHANGED runOthers
    \/ (\E i \in 1..Len(m_procs) : MainPause(i)) /\ UNCHANGED runOthers
InitSpecRun == ResolveIdle /\ EnvIdle /\ AppIdle /\ DriverIdle /\ InitRun /\ TempIdle /\ TestsIdle /\ PluginIdle /\ GetTestsIdle
SpecRun == InitSpecRun /\ [][NextRun]_vars

driverOthers == <<resolveVars, envVars, appVars, runVars, tempVars, testsVars, pluginVars, getTestsVars>>
NextDriver ==
    \/ DriverInitialize /\ UNCHANGED driverOthers
    \/ DriverReconcile /\ UNCHANGED driverOthers
    \/ DriverRunTests /\ UNCHANGED driverOthers
    \/ DriverShutdown /\ UNCHANGED driverOthers
InitSpecDriver == ResolveIdle /\ EnvIdle /\ AppIdle /\ RunIdle /\ InitDriver /\ TempIdle /\ TestsIdle /\ PluginIdle /\ GetTestsIdle
SpecDriver == InitSpecDriver /\ [][NextDriver]_vars

tempOthers == <<resolveVars, envVars, appVars, runVars, driverVars, testsVars, pluginVars, getTestsVars>>
NextTemp ==
    \/ \E cls \in DOMAIN t_files_created, name \in TempNames :
          GetTempFilename(cls, name) /\ UNCHANGED tempOthers
    \/ \E cls \in DOMAIN t_files_created, k \in 1..MaxTempCalls :
          WriteTempFile(cls, k) /\ UNCHANGED tempOthers
    \/ \E cls \in DOMAIN t_files_created : DeleteTempFiles(cls) /\ UNCHANGED tempOthers
    \/ TempStopTestRun /\ UNCHANGED tempOthers
    \/ \E directory \in {TempDir, "/caller", "/missing"} :
          TempSetTempDir(directory) /\ UNCHANGED tempOthers
    \/ \E value \in BOOLEAN : TempSetDeleteFiles(value) /\ UNCHANGED tempOthers
InitSpecTemp == ResolveIdle /\ EnvIdle /\ AppIdle /\ RunIdle /\ DriverIdle /\ InitTemp /\ TestsIdle /\ PluginIdle /\ GetTestsIdle
SpecTemp == InitSpecTemp /\ [][NextTemp]_vars

testsOthers == <<resolveVars, envVars, appVars, runVars, driverVars, tempVars, pluginVars, getTestsVars>>
NextTests ==
    \/ \E value \in BOOLEAN : SetBufferOutput(value) /\ UNCHANGED testsOthers
    \/ \E value \in BOOLEAN : SetFileNew(value) /\ UNCHANGED testsOthers
    \/ \E value \in BOOLEAN : SetDeleteFiles(value) /\ UNCHANGED testsOthers
    \/ \E exists \in BOOLEAN : SetTempDir(exists) /\ UNCHANGED testsOthers
    \/ TearDownClassDeletes /\ UNCHANGED testsOthers
    \/ \E flags \in HostFlagStates : HostSetsFlags(flags) /\ UNCHANGED testsOthers
    \/ \E collector \in {"custom", "plain"} : StartTestRun(collector) /\ UNCHANGED testsOthers
    \/ \E outcome \in TestOutcomes, makes_temp \in BOOLEAN :
          RunTest(outcome, makes_temp) /\ UNCHANGED testsOthers
    \/ TearDown /\ UNCHANGED testsOthers
    \/ StopTest /\ UNCHANGED testsOthers
    \/ StopTestRun /\ UNCHANGED testsOthers
InitSpecTests == ResolveIdle /\ EnvIdle /\ AppIdle /\ RunIdle /\ DriverIdle /\ TempIdle /\ InitTests /\ PluginIdle /\ GetTestsIdle
SpecTests == InitSpecTests /\ [][NextTests]_vars

pluginOthers == <<resolveVars, envVars, appVars, runVars, driverVars, tempVars, testsVars, getTestsVars>>
NextPlugins ==
    \/ \E c \in Classes, plugin \in Plugins : LoadPlugin(c, plugin) /\ UNCHANGED pluginOthers
    \/ \E c \in Classes : TearDownClass(c) /\ UNCHANGED pluginOthers
InitSpecPlugins == ResolveIdle /\ EnvIdle /\ AppIdle /\ RunIdle /\ DriverIdle /\ TempIdle /\ TestsIdle /\ InitPlugins /\ GetTestsIdle
SpecPlugins == InitSpecPlugins /\ [][NextPlugins]_vars

getTestsOthers == <<resolveVars, envVars, appVars, runVars, driverVars, tempVars, testsVars, pluginVars>>
NextGetTests ==
    \/ GetTestsAdd /\ UNCHANGED getTestsOthers
    \/ GetTestsLoad /\ UNCHANGED getTestsOthers
    \/ GetTestsRemove /\ UNCHANGED getTestsOthers
InitSpecGetTests == ResolveIdle /\ EnvIdle /\ AppIdle /\ RunIdle /\ DriverIdle /\ TempIdle /\ TestsIdle /\ PluginIdle /\ InitGetTests
SpecGetTests == InitSpecGetTests /\ [][NextGetTests]_vars

-----------------------------------------------------------------------------
(* Claims about resolve_maya_location *)

\* the entry the lookup table holds for a platform and a version: keyed by
\* the normalized platform name, then by the version written as a string
TableEntry(installs, sysname, version) ==
    LET o == _normalize_os_key(sysname)
        k == ToString(version)
    IN  IF installs.isdict /\ o \in DOMAIN installs.items
           /\ installs.items[o].isdict /\ k \in DOMAIN installs.items[o].items
        THEN installs.items[o].items[k]
        ELSE None

\* C1: the result is the explicit override if given, else the table entry
\* for the current platform and version if it is non-empty, else the
\* MAYA_LOCATION value if set, else the synthesized platform default --
\* for every version.
C1_PriorityOrdered ==
    r_pc = "returned" =>
        r_location =
            IF Truthy(r_maya_path) THEN r_maya_path
            ELSE IF Truthy(TableEntry(r_installs, r_sysname, r_version))
                 THEN TableEntry(r_installs, r_sysname, r_version)
            ELSE IF Truthy(r_environ) THEN r_environ
            ELSE default_maya_location(_normalize_os_key(r_sysname), r_version)


-----------------------------------------------------------------------------
(* Claims about configure_env_for_packages *)

\* the first n entries of seq written one after the other with sep between
RECURSIVE C8_Joined(_, _, _)
C8_Joined(seq, n, sep) ==
    IF n = 0 THEN ""
    ELSE IF n = 1 THEN seq[1]
    ELSE C8_Joined(seq, n - 1, sep) \o sep \o seq[n]

C8_Roots == [i \in 1..Len(e_packages) |-> e_packages[i].root]
C8_Sources ==
    SelectSeq([i \in 1..Len(e_packages) |-> e_packages[i].python_dir],
              LAMBDA d : d # None)

\* C8: after configure_env_for_packages the module path is the package roots
\* joined by the path separator in the order supplied; the script path is
\* empty; the import path is the existing python/ directories in package
\* order, then the separator and the previous value when there was one, and
\* is untouched when no package has a python/ directory; MAYA_APP_DIR is
\* written only when an isolation directory was provided.
C8_EnvConfigured ==
    e_pc = "returned" =>
        LET sep == Pathsep(e_sysname)
        IN  /\ e_environ["MAYA_MODULE_PATH"] = C8_Joined(C8_Roots, Len(C8_Roots), sep)
            /\ e_environ["MAYA_SCRIPT_PATH"] = ""
            /\ e_environ["PYTHONPATH"] =
                 IF C8_Sources = <<>> THEN e_before["PYTHONPATH"]
                 ELSE C8_Joined(C8_Sources, Len(C8_Sources), sep)
                      \o (IF Truthy(e_before["PYTHONPATH"])
                          THEN sep \o e_before["PYTHONPATH"] ELSE "")
            /\ e_environ["MAYA_APP_DIR"] =
                 IF e_app_dir # None THEN e_app_dir ELSE e_before["MAYA_APP_DIR"]
            /\ e_environ["MAYA_LOCATION"] = e_before["MAYA_LOCATION"]

\* the spec's example: P1 with python/, P2 without, a previous import path,
\* no isolation directory
C8_Witness ==
    /\ e_pc = "returned"
    /\ Len(e_packages) = 2
    /\ e_packages[1].python_dir # None
    /\ e_packages[2].python_dir = None
    /\ e_packages[1].root # e_packages[2].root
    /\ e_before["PYTHONPATH"] = "/prev"
    /\ e_environ["PYTHONPATH"] = e_packages[1].python_dir \o ":" \o "/prev"
    /\ e_environ["MAYA_MODULE_PATH"] = e_packages[1].root \o ":" \o e_packages[2].root
    /\ e_app_dir = None
    /\ e_before["MAYA_APP_DIR"] = "/prev"


-----------------------------------------------------------------------------
(* Claims about get_clean_maya_app_dir and _rmtree_with_retries *)

C4_AcquiredExisting ==
    /\ a_op.fn = "acquire" /\ a_pc = "returned"
    /\ Truthy(a_op.arg) /\ a_op.arg \in a_before

\* C4: acquiring an existing caller-supplied path returns exactly that path
\* and creates nothing, and a directory reused this way still exists after
\* any later release of it.
C4_ReusedNeverDeleted ==
    /\ C4_AcquiredExisting => (a_op.ret = a_op.arg /\ a_fs = a_before)
    /\ \A p \in a_reused : p \in a_fs

C6_Releasing == a_op.fn = "release"
C6_Busy == a_pc \in {"loop", "final"}
C6_Finished == a_pc \in {"returned", "raised"}

\* what C6 says of a release apart from the number of removals
C6_Rest ==
    C6_Releasing =>
        \* a fixed delay after each failed attempt of the loop
        /\ a_slept = DelayMs * a_i
        /\ a_pc = "loop" => a_rmtrees = a_i
        \* the first success ends the call: no further attempt, no rename
        /\ a_succ_at > 0 => (a_pc = "returned" /\ a_rmtrees = a_succ_at
                             /\ a_raised = NoErr)
        /\ (a_succ_at > 0 /\ a_succ_at <= a_tries) =>
               (a_renames = 0 /\ a_op.arg \notin a_fs /\ a_slept = DelayMs * (a_succ_at - 1))
        \* nothing to do for an empty path or one that does not exist
        /\ (~Truthy(a_op.arg) \/ a_op.arg \notin a_before) =>
               /\ a_pc = "returned" /\ a_raised = NoErr
               /\ a_fs = a_before /\ a_rmtrees = 0 /\ a_renames = 0 /\ a_slept = 0

\* C6 as stated: a release removes the whole tree at most tries times.
C6_AtMostTriesRemovals ==
    /\ C6_Releasing => a_rmtrees <= a_tries
    /\ C6_Rest

\* C6 as amended: a release always terminates; it removes the whole tree at
\* most tries times in its retry loop and at most once more after the
\* rename (tries + 1 in all), sleeps the fixed delay after each attempt of
\* the loop that fails with a permission error, returns at once after the
\* first attempt that succeeds, and does nothing for an empty or absent path.
C6_ReleaseTerminates ==
    /\ [](/\ C6_Releasing => a_rmtrees <= a_tries + 1
          /\ (C6_Releasing /\ a_pc = "loop") => a_rmtrees <= a_tries
          /\ C6_Rest)
    /\ (C6_Busy ~> C6_Finished)

\* the default 12 attempts all fail, the rename too, the 13th removal works
C6_Witness ==
    /\ C6_Releasing /\ a_pc = "returned"
    /\ a_tries = DefaultTries /\ a_rmtrees = DefaultTries + 1
    /\ a_slept = DelayMs * DefaultTries
    /\ a_renamed = a_op.arg /\ a_op.arg \notin a_fs

C7_LastResort == C6_Releasing /\ a_renames > 0

-----------------------------------------------------------------------------
(* Claims about main *)

Procs == 1..Len(m_procs)
Exited(i) == m_procs[i].pc = "exit"
Relaunched(i) == m_procs[i].spawned > 0

\* C2: a process that relaunched under the host interpreter waits for the
\* child to finish, and its exit status is the child's exit code, whatever
\* that code is.
C2_ExitStatusVerbatim ==
    \A i \in Procs :
        Relaunched(i) =>
            /\ i < Len(m_procs)
            /\ ~Exited(i + 1) => m_procs[i].pc = "wait"
            /\ Exited(i) => (Exited(i + 1) /\ m_procs[i].status = m_procs[i + 1].status)

\* the import of the driver raised in the child, the child ended with
\* status 1 and so did the outer process
C2_Witness ==
    /\ Len(m_procs) = 2 /\ Exited(1) /\ Relaunched(1)
    /\ m_procs[2].exc = "AttributeError"
    /\ m_procs[2].status = 1 /\ m_procs[1].status = 1

Count(seq, x) == Cardinality({k \in 1..Len(seq) : seq[k] = x})

\* C3: a process inside the host interpreter, or given the re-launch flag,
\* never spawns and goes on to execution; a spawned child is given its
\* parent's arguments plus the flag exactly once; a run spawns at most one
\* child, so the chain of relaunches ends.
C3_RelaunchOnce ==
    /\ \A i \in Procs :
          /\ (m_procs[i].in_mayapy \/ ParsedInMayapy(m_procs[i].argv_tail)) =>
                (m_procs[i].spawned = 0 /\ m_procs[i].pc # "wait")
          /\ m_procs[i].spawned <= 1
          /\ i > 1 => /\ m_procs[i].argv_tail = Append(m_procs[i - 1].argv_tail, FLAG)
                      /\ Count(m_procs[i].argv_tail, FLAG) = 1
                      /\ Relaunched(i - 1)
    /\ Len(m_procs) <= 2

\* the child, though not recognized as the host interpreter, carries the flag
\* and has gone through the execution phase without spawning
C3_Witness ==
    /\ Len(m_procs) = 2
    /\ ~m_procs[2].in_mayapy /\ m_procs[2].argv_tail = <<FLAG>>
    /\ m_procs[2].entered /\ m_procs[2].spawned = 0 /\ Exited(2) /\ Exited(1)

\* C5: the isolation directory is created only when isolation is requested,
\* and then its removal is attempted at the end of the run on every way out
\* of the execution phase (tests passed, tests failed, the import or the
\* driver raised); without the request nothing is created or removed.
C5_IsolationLifecycle ==
    \A i \in Procs :
        LET p == m_procs[i] IN
        /\ ~m_args.clean => (p.created = 0 /\ p.rm_calls = 0 /\ p.maya_app_dir = None)
        /\ p.created <= 1 /\ p.rm_calls <= p.created
        /\ (p.created = 1 /\ p.pc \notin {"pause", "exit"}) => p.maya_app_dir \in m_dirs
        /\ (m_args.clean /\ p.entered) => p.created = 1
        /\ (m_args.clean /\ p.entered /\ p.pc \in {"removing", "pause", "exit"}) =>
              p.rm_calls = 1
        /\ p.rm_calls = 1 => (p.entered /\ p.pc \in {"removing", "pause", "exit"})

\* isolation requested, the import of the driver raised, removal attempted
C5_Witness ==
    \E i \in Procs :
        /\ m_args.clean /\ Exited(i)
        /\ m_procs[i].exc = "AttributeError"
        /\ m_procs[i].created = 1 /\ m_procs[i].rm_calls = 1
        /\ m_procs[i].maya_app_dir \notin m_dirs

C9_PackagesBad ==
    \E k \in 1..Len(m_args.packages) :
        LET root == abspath(m_args.packages[k], m_sysname)
        IN  root \notin m_dirs \/ PathJoin(root, "tests", m_sysname) \notin m_dirs

C9_BinaryAbsent(i) ==
    /\ m_procs[i].maya_location # None
    /\ mayapy_exe_from_location(m_procs[i].maya_location, m_sysname) \notin m_dirs

\* the process fails before any host process is touched
C9_Aborts(i) ==
    /\ m_procs[i].spawned = 0 /\ m_procs[i].inits = 0
    /\ m_procs[i].pc \in {"start", "resolve", "decide", "exit"}
    /\ Exited(i) => m_procs[i].status # 0
    /\ i = Len(m_procs)

\* C9 as stated: with a package root or its tests/ missing, or the host
\* interpreter binary absent under the resolved location, the run fails, no
\* child is spawned and the runtime is never initialized.
C9_ConfigErrorsAbort ==
    \A i \in Procs : (C9_PackagesBad \/ C9_BinaryAbsent(i)) => C9_Aborts(i)

\* C9 as amended: the same, the absent binary counting only in a process
\* that has to relaunch (not inside the host interpreter, no re-launch
\* flag); a process inside the host or carrying the flag never looks for
\* the binary.
C9_ConfigErrorsAbortWhenRelaunching ==
    \A i \in Procs :
        (C9_PackagesBad \/ (C9_BinaryAbsent(i) /\ MustRelaunch(m_procs[i])))
            => C9_Aborts(i)

\* tests/ is missing and the process has ended with an error, alone
C9_Witness ==
    /\ Len(m_procs) = 1 /\ Exited(1) /\ m_procs[1].status = 1
    /\ C9_PackagesBad
    /\ \A k \in 1..Len(m_args.packages) : abspath(m_args.packages[k], m_sysname) \in m_dirs
    /\ MustRelaunch(m_procs[1])


-----------------------------------------------------------------------------
(* Claims about run_tests_from_commandline *)

C10_ProbeFailed == d_about.raises \/ ~PyFloat(d_about.value).ok

\* C10: when determining the host version fails (the probe raises, or
\* returns something that is no number), maya.standalone.uninitialize is
\* still called after the tests have run.
C10_UninitializeDespiteProbeFailure ==
    (d_pc \in {"returned", "raised"} /\ d_tests = "returned" /\ C10_ProbeFailed)
        => d_uninits = 1


EventAt(e) == {k \in 1..Len(d_events) : d_events[k] = e}

\* C11: the runtime is initialized exactly once, before the import path is
\* reconciled, tests are collected and any test executes; no test executes
\* after uninitialize; once the test run has completed, uninitialize is
\* called exactly once for a host version of 2016 or above and not at all
\* for a version below it.
C11_DriverLifecycle ==
    /\ d_inits <= 1 /\ Cardinality(EventAt("initialize")) <= 1
    /\ d_events # <<>> => d_events[1] = "initialize"
    /\ d_runtime = (IF EventAt("uninitialize") # {} THEN "Uninitialized"
                    ELSE IF EventAt("initialize") # {} THEN "Initialized"
                    ELSE "NotInitialized")
    /\ \A k \in EventAt("reconcile"), j \in EventAt("discover") \cup EventAt("test") : k < j
    /\ \A k \in EventAt("uninitialize") :
          /\ k = Len(d_events)
          /\ d_tests = "returned"
    /\ Cardinality(EventAt("uninitialize")) = d_uninits
    /\ (d_pc \in {"returned", "raised"} /\ d_tests = "returned" /\ ~C10_ProbeFailed)
          => d_uninits = (IF PyFloat(d_about.value).val >= UninitializeFrom THEN 1 ELSE 0)

\* two tests ran under a 2015 host and the call returned without uninitialize
C11_Witness ==
    /\ d_pc = "returned" /\ d_about.value = "2015"
    /\ Cardinality(EventAt("test")) = 2 /\ d_uninits = 0 /\ d_runtime = "Initialized"


-----------------------------------------------------------------------------
(* Claims about MayaTestCase *)

\* C12: the same relative name requested twice from get_temp_filename, with
\* nothing done in between, gives two distinct paths, the second with a
\* number before the extension, and both are registered for cleanup; no
\* two calls return the same path.
C12_SameNameTwiceDistinct ==
    \A i, j \in 1..Len(t_returned) :
        i < j =>
            /\ t_returned[i].path # t_returned[j].path
            /\ t_returned[i].name = t_returned[j].name =>
                  \E count \in 1..MaxTempCalls :
                      t_returned[j].path = Numbered(t_temp_dir, t_returned[j].name, count)
            /\ \A r \in {t_returned[i], t_returned[j]} :
                  LET list == t_files_created[FilesCreatedOwner(t_own, r.cls)]
                  IN  \E k \in 1..Len(list) : list[k] = r.path


-----------------------------------------------------------------------------
(* Claims about the process that executes the tests *)

C13_DriverReturned(i) == Exited(i) /\ m_procs[i].driver \in {"passed", "failed"}

\* C13 as stated: whenever the driver returns (tests passing or failing),
\* the exit code of the process is 0, and a failed removal of the isolation
\* directory is only a warning.
C13_ExitZeroWhenDriverReturns ==
    \A i \in Procs : C13_DriverReturned(i) => m_procs[i].status = 0

C14_Configured(p) ==
    configure_env_for_packages(p.packages, p.maya_app_dir,
                               ExportLocation(p.environ0, p.maya_location), m_sysname)

\* C14: in the process that executes the tests, MAYA_LOCATION and the
\* variables written by configure_env_for_packages are set before the test
\* module is imported and before the runtime is initialized, and are not
\* written again during the run.
C14_EnvironmentBeforeImport ==
    \A i \in Procs :
        LET p == m_procs[i] IN
        (p.pc \in {"import", "run", "finally", "removing", "pause"} \/ p.inits > 0 \/ p.exc # ""
            \/ p.driver # "none") =>
            /\ p.entered
            /\ p.environ = C14_Configured(p)
            /\ p.environ["MAYA_LOCATION"] = p.maya_location /\ p.maya_location # None
            /\ p.environ["MAYA_SCRIPT_PATH"] = ""
            /\ p.environ["MAYA_MODULE_PATH"] =
                  _join_paths([k \in 1..Len(p.packages) |-> p.packages[k].root], m_sysname)
            /\ (m_args.clean => p.environ["MAYA_APP_DIR"] = p.maya_app_dir)
            /\ (~m_args.clean => p.environ["MAYA_APP_DIR"] = p.environ0["MAYA_APP_DIR"])

\* a process that found another MAYA_LOCATION in its environment has run the
\* tests with the resolved one and two package roots configured
C14_Witness ==
    \E i \in Procs :
        LET p == m_procs[i] IN
        /\ Exited(i) /\ p.inits = 1 /\ Len(p.packages) = 2
        /\ p.environ0["MAYA_LOCATION"] = "/z" /\ p.maya_location = "/x"
        /\ p.environ["MAYA_LOCATION"] = "/x"
        /\ p.environ["PYTHONPATH"] # None


-----------------------------------------------------------------------------
(* Claims about the result collector *)

\* C15: with file_new enabled the document is reset exactly once after every
\* executed test, by stopTest when the custom collector is active (marker
\* set) and by tearDown otherwise, never by both; with file_new disabled it
\* is never reset.
C15_ResetExactlyOnce ==
    LET t == u_last_test IN
    t.outcome # "none" =>
        /\ Len(t.resets) <= 1
        /\ ~t.file_new => t.resets = <<>>
        /\ (t.file_new /\ Executed(t.outcome)) =>
              t.resets = (IF t.collector = "custom" THEN <<"stopTest">> ELSE <<"tearDown">>)

\* C16: the marker is in the environment from startTestRun through every
\* test of the run, and gone after stopTestRun for every run, also when
\* deleting the temp directory at the end of the run fails.
C16_MarkerOnlyDuringRun ==
    /\ (u_collector = "custom" /\ u_pc \in {"tests", "tearDown", "stopTest"}) => u_marker
    /\ u_pc = "idle" => ~u_marker

\* C17: after each run's stopTestRun the host's four suppress flags have the
\* values they had immediately before that run's startTestRun, whatever the
\* buffering setting of the run.
C17_FlagsRoundTrip ==
    (u_collector = "custom" /\ u_pc = "idle" /\ u_runs > 0) => u_after = u_before


-----------------------------------------------------------------------------
(* Claims about the plugin bookkeeping *)

\* C18: tearDownClass attempts to unload every recorded plugin even when
\* unloading one of them fails, and completes without raising.
C18_TeardownToleratesFailures ==
    p_last.op = "tearDownClass" =>
        /\ p_last.attempted = p_last.recorded
        /\ p_last.raised = ""

\* C19: after a class's teardown its plugin collection is an empty set on
\* which load_plugin records again; a plugin is unloaded only by the
\* teardown of the class that loaded it, and at most once per load.
C19_PluginRecordsPerClass ==
    /\ (p_last.op = "tearDownClass" /\ p_last.raised = "") =>
          (IsSet(p_own, p_last.cls) /\ plugins_loaded(p_own, p_base, p_last.cls) = {})
    /\ p_last.op = "load_plugin" => p_last.raised = ""
    /\ \A pl \in Plugins :
          /\ Len(p_unloads[pl]) <= 1
          /\ \A k \in 1..Len(p_unloads[pl]) : p_unloads[pl][k] = p_loader[pl]


-----------------------------------------------------------------------------
(* Claims about get_tests *)

Reverse(seq) == [k \in 1..Len(seq) |-> seq[Len(seq) + 1 - k]]
Elems(seq) == {seq[k] : k \in 1..Len(seq)}

\* C20: get_tests with a named test adds to the front of sys.path only the
\* candidate directories that exist and are not already there, and when it
\* has returned it has removed exactly those: the entries present before
\* the call are all there in their order and no added entry is left.
C20_ImportPathRestored ==
    Truthy(g_test) =>
        /\ g_pc \in {"loading", "loaded", "raised"} =>
              /\ g_sys_path = Reverse(g_added) \o g_sys_path0
              /\ Elems(g_added) =
                    {p \in Elems(g_directories) : p \in g_exists /\ p \notin Elems(g_sys_path0)}
              /\ Cardinality(Elems(g_added)) = Len(g_added)
        /\ g_pc = "returned" => g_sys_path = g_sys_path0

\* two candidates, one already on the path: the other was added and removed
C20_Witness ==
    /\ g_pc = "returned" /\ Truthy(g_test)
    /\ g_directories = <<"/pkgA/tests", "/pkgB/tests">>
    /\ g_sys_path0 = <<"/site", "/pkgA/tests">>
    /\ g_added = <<"/pkgB/tests">>
    /\ g_sys_path = g_sys_path0

-----------------------------------------------------------------------------
(* Claim C21: run_tests_from_commandline, import-path reconciliation *)

\* the directories listed in PYTHONPATH: its non-empty fields
C21_Listed ==
    IF d_pythonpath.set
    THEN {d_pythonpath.fields[k] : k \in 1..Len(d_pythonpath.fields)} \ {""}
    ELSE {}
C21_Real(seq) == [k \in 1..Len(seq) |-> Realpath(seq[k])]
C21_Inserted == SubSeq(d_sys_path, 1, Len(d_sys_path) - Len(d_sys_path0))

\* C21: when the reconciliation has run, sys.path is the entries it inserted
\* followed by sys.path as it was; every directory listed in PYTHONPATH is on
\* sys.path by its real path; a listed directory that was already there (by
\* real path) is not there more often than before and one that was not is
\* there once; every inserted entry is the real path of a listed directory;
\* and with nothing listed (PYTHONPATH empty or unset) sys.path is unchanged.
C21_PathReconciled ==
    d_pc = "reconciled" =>
        /\ Len(d_sys_path) >= Len(d_sys_path0)
        /\ SubSeq(d_sys_path, Len(d_sys_path) - Len(d_sys_path0) + 1, Len(d_sys_path))
               = d_sys_path0
        /\ \A p \in C21_Listed : Contains(C21_Real(d_sys_path), Realpath(p))
        /\ \A p \in C21_Listed :
               Count(C21_Real(d_sys_path), Realpath(p))
                   = IF Contains(C21_Real(d_sys_path0), Realpath(p))
                     THEN Count(C21_Real(d_sys_path0), Realpath(p))
                     ELSE 1
        /\ \A k \in 1..Len(C21_Inserted) :
               \E p \in C21_Listed : C21_Inserted[k] = Realpath(p)
        /\ (C21_Listed = {} => d_sys_path = d_sys_path0)

-----------------------------------------------------------------------------
(* Claim C22: one install location per run, in both processes *)

\* the location main resolves in process p from the run's arguments and
\* lookup table and the MAYA_LOCATION value given
C22_Resolved(environ) ==
    resolve_maya_location(m_args.maya, m_args.maya_path, m_installs, m_sysname,
                          environ["MAYA_LOCATION"])

\* C22: in every process that has resolved the install location, MAYA_LOCATION
\* holds the resolved location and resolving again from that environment
\* gives the same location; a relaunched process found its parent's location
\* in the MAYA_LOCATION it inherited and has resolved the same location as
\* its parent.
C22_OneLocationPerRun ==
    \A i \in 1..Len(m_procs) :
        LET p == m_procs[i]
        IN  p.maya_location # None =>
                /\ p.maya_location = C22_Resolved(p.environ0)
                /\ p.environ["MAYA_LOCATION"] = p.maya_location
                /\ C22_Resolved(p.environ) = p.maya_location
                /\ i > 1 => /\ p.environ0["MAYA_LOCATION"] = m_procs[i - 1].maya_location
                            /\ p.maya_location = m_procs[i - 1].maya_location

\* the outer process found no override, no table entry and no MAYA_LOCATION
\* and exported the synthesized default; the relaunched process has resolved
\* the same location, from the environment
C22_Witness ==
    /\ Len(m_procs) = 2
    /\ m_args.maya_path = None /\ m_installs = Dict(NoItems)
    /\ m_procs[1].environ0["MAYA_LOCATION"] = None
    /\ m_procs[1].maya_location
           = default_maya_location(_normalize_os_key(m_sysname), m_args.maya)
    /\ m_procs[2].environ0["MAYA_LOCATION"] = m_procs[1].maya_location
    /\ m_procs[2].maya_location = m_procs[1].maya_location

\* the same for one call of resolve_maya_location on every drawn version,
\* override, lookup table, platform and MAYA_LOCATION value: the location it
\* returned is never empty, and the call repeated with MAYA_LOCATION set to
\* it returns it again
C22_ReResolveIdempotent ==
    r_pc = "returned" =>
        /\ Truthy(r_location)
        /\ resolve_maya_location(r_version, r_maya_path, r_installs, r_sysname,
                                 r_location) = r_location

=============================================================================
